---- MODULE Spec2Model ----
(***************************************************************************)
(* A model of the user/role CRUD service: the role-hierarchy scope         *)
(* resolver, the session-token service, the auth guard, and the request    *)
(* handlers of routers/usr_auth.py, routers/usr_user.py and                *)
(* routers/usr_role.py acting on the two tables of core/models/database.py.*)
(*                                                                         *)
(* Time is counted in minutes.  A request is a small process: one step per *)
(* awaited store statement (or awaited email dispatch), so that requests   *)
(* may interleave exactly where the handlers await.                        *)
(***************************************************************************)
EXTENDS Integers, Sequences, FiniteSets, TLC

VARIABLES
    UserTable,      \* rows of usr_user          (core/models/database.py)
    RoleTable,      \* rows of usr_role          (core/models/database.py)
    role_seq,       \* last value handed out by the usr_role id sequence
    now,            \* the wall clock, in minutes
    req,            \* the requests in flight: slot -> request record
    served,         \* number of requests accepted so far
    ticks,          \* number of clock advances so far
    issued,         \* session tokens returned by log_in
    mailed,         \* challenge tokens dispatched by send_email
    granted,        \* history: the bearer tokens the guard has authorized
    call            \* a single call of a pure function under test

vars == <<UserTable, RoleTable, role_seq, now, req, served, ticks,
          issued, mailed, granted, call>>

----------------------------------------------------------------------------
(* Bounds of the model. *)

MaxLen == 3         \* longest scope list handed to assign_scopes
MaxRequests == 3    \* requests accepted in one behaviour
MaxTicks == 1       \* clock advances in one behaviour

(* Program constants. *)

ACCESS_TOKEN_EXPIRE_MINUTES == 1440
OTP_CODE_EXPIRY_MINUTES == 5

----------------------------------------------------------------------------
(* Generic helpers. *)

Range(s) == {s[i] : i \in 1..Len(s)}

SeqsUpTo(S, n) == UNION {[1..k -> S] : k \in 0..n}

----------------------------------------------------------------------------
(* core/scopes/set_scope.py: the five role names. *)

Role ==
    [REPORTING_USER |-> "REPORTING_USER",
     USER           |-> "USER",
     MANAGER        |-> "MANAGER",
     ADMIN          |-> "ADMIN",
     SUPER_ADMIN    |-> "SUPER_ADMIN"]

\* A failed call: the HTTPException a function raises.
Raise(status, detail) == [error |-> TRUE, status |-> status, detail |-> detail]

\* A mutant of assign_scopes: the ADMIN branch forgets REPORTING_USER and an
\* unknown name is treated as USER.
assign_scopes_wrong(scopes) ==
    IF Role.SUPER_ADMIN \in Range(scopes)
    THEN <<Role.SUPER_ADMIN, Role.ADMIN, Role.MANAGER, Role.USER, Role.REPORTING_USER>>
    ELSE IF Role.ADMIN \in Range(scopes)
    THEN <<Role.ADMIN, Role.MANAGER, Role.USER>>
    ELSE IF Role.MANAGER \in Range(scopes)
    THEN <<Role.MANAGER, Role.USER, Role.REPORTING_USER>>
    ELSE IF Role.USER \in Range(scopes)
    THEN <<Role.USER, Role.REPORTING_USER>>
    ELSE IF Role.REPORTING_USER \in Range(scopes)
    THEN <<Role.REPORTING_USER>>
    ELSE <<Role.USER>>

\* internal/token.py assign_scopes: a cascade of membership tests, highest
\* rank first; the first that succeeds decides the list returned.
assign_scopes(scopes) ==
    IF Role.SUPER_ADMIN \in Range(scopes)
    THEN <<Role.SUPER_ADMIN, Role.ADMIN, Role.MANAGER, Role.USER, Role.REPORTING_USER>>
    ELSE IF Role.ADMIN \in Range(scopes)
    THEN <<Role.ADMIN, Role.MANAGER, Role.USER, Role.REPORTING_USER>>
    ELSE IF Role.MANAGER \in Range(scopes)
    THEN <<Role.MANAGER, Role.USER, Role.REPORTING_USER>>
    ELSE IF Role.USER \in Range(scopes)
    THEN <<Role.USER, Role.REPORTING_USER>>
    ELSE IF Role.REPORTING_USER \in Range(scopes)
    THEN <<Role.REPORTING_USER>>
    ELSE <<>>

----------------------------------------------------------------------------
(* Values.  An email is <<local part, domain>>; a username is the base name *)
(* plus the microsecond suffix create_user appends on a collision (NoMicro  *)
(* when there is none); SQL NULL is NULL for the character columns, NullId  *)
(* for role_id and NoPassword for the password column.                      *)

NULL == "NULL"
NullId == 0
NoPassword == <<>>
NoMicro == 0 - 1

Email(local, domain) == <<local, domain>>
Username(base) == [base |-> base, micro |-> NoMicro]

RootEmail == Email("root", "x.com")
AnnEmail == Email("ann", "x.com")
Emails == {RootEmail, AnnEmail, Email("ann", "y.org"), Email("bob", "x.com")}

Passwords == {"Abc12345#", "Xyz98765#"}
OtpCodes == {"100000", "999999"}       \* str(random.randint(100000, 999999))
Microseconds == {123456}               \* datetime.now().microsecond

\* str.lower() and str.upper() on the names that occur.
Lower(s) ==
    CASE s = "ROOT" -> "root"
      [] s = "Ann"  -> "ann"
      [] OTHER      -> s

Upper(s) ==
    CASE s = "super_admin"    -> "SUPER_ADMIN"
      [] s = "admin"          -> "ADMIN"
      [] s = "manager"        -> "MANAGER"
      [] s = "user"           -> "USER"
      [] s = "reporting_user" -> "REPORTING_USER"
      [] OTHER                -> s

\* passlib pbkdf2_sha256: hash(secret) and verify(secret, hash).  verify of a
\* NULL hash raises TypeError, which callers see as an exception.
pbkdf2_sha256_hash(secret) == <<"$pbkdf2-sha256", secret>>
pbkdf2_sha256_verify(secret, hash) == hash = pbkdf2_sha256_hash(secret)

----------------------------------------------------------------------------
(* core/models/database.py: the two tables and their constraints. *)

\* Columns of usr_user that are nullable=False and have no default: an INSERT
\* that leaves one out stores NULL there and fails.
UserNotNull == {"username", "email", "email_verified", "password_verified",
                "is_active", "role_id"}

\* The value a column takes when an INSERT leaves it out (default=None).
UserDefaults ==
    [first_name |-> NULL, city |-> NULL, password |-> NoPassword,
     email_otp |-> NULL, password_otp |-> NULL, role_id |-> NullId]

UserIds == {1, 2, 3}

RoleRow(id, name) == [id |-> id, role_name |-> name]

\* core/database_insertions/roles_insertion.py: the five rows, in this order.
SeedRoles ==
    {RoleRow(1, "super_admin"), RoleRow(2, "admin"), RoleRow(3, "manager"),
     RoleRow(4, "user"), RoleRow(5, "reporting_user")}

UserRow(id, username, email, password, email_otp, email_verified, role_id) ==
    [id |-> id, first_name |-> NULL, city |-> NULL, username |-> username,
     email |-> email, password |-> password, email_otp |-> email_otp,
     email_verified |-> email_verified, password_otp |-> NULL,
     password_verified |-> TRUE, is_active |-> TRUE, role_id |-> role_id]

\* The user table the service starts on.  No endpoint can bootstrap the first
\* super admin, so the rows are provisioned outside the service: an onboarded
\* super admin, and a reporting user who still holds the confirmation code
\* and has no password yet.
SeedUsers ==
    {UserRow(1, Username("root"), RootEmail, pbkdf2_sha256_hash("Abc12345#"),
             NULL, TRUE, 1),
     UserRow(2, Username("ann"), AnnEmail, NoPassword, "100000", FALSE, 5)}

\* Rows of a table selected by a predicate; fetch_one of a key column.
ByEmail(T, email) == {u \in T : u.email = email}
ByUsername(T, username) == {u \in T : u.username = username}
ById(T, id) == {u \in T : u.id = id}

\* The unique constraints of usr_user: username and email.
UserUnique(T) ==
    \A u, v \in T : (u.id = v.id \/ u.username = v.username \/ u.email = v.email) => u = v

\* The foreign key usr_user.role_id -> usr_role.id.
\* A mutant of UserForeignKey: the store does not enforce the foreign key.
UserForeignKey_unenforced(T, R) == TRUE

UserForeignKey(T, R) == \A u \in T : u.role_id = NullId \/ ById(R, u.role_id) # {}

\* NOT NULL of the columns an UPDATE may set to NULL.
NullUsername == [base |-> NULL, micro |-> NoMicro]
UserNotNullOk(T) == \A u \in T : u.username # NullUsername /\ u.role_id # NullId

RoleUnique(R) == \A r, q \in R : (r.id = q.id \/ r.role_name = q.role_name) => r = q

\* A statement's outcome: the error class asyncpg raises, or "ok".
Ok == "ok"
NotNullViolationError == "NotNullViolationError"
UniqueViolationError == "UniqueViolationError"
ForeignKeyViolationError == "ForeignKeyViolationError"

----------------------------------------------------------------------------
(* The token service: python-jose jwt.encode / jwt.decode under the         *)
(* process-wide SECRET_KEY, and internal/token.py create_access_token.      *)

SECRET_KEY == "SECRET_KEY"

\* The signature binds the claims to the key: altering either breaks it.
Sign(claims, key) == <<key, claims>>

jwt_encode(claims, key) == [claims |-> claims, sig |-> Sign(claims, key)]

\* jwt.decode: JWTError when the signature does not verify under the key or
\* when an exp claim lies in the past (exp < now); otherwise the claims.  A
\* token without an exp claim never expires.
jwt_decode(token, key, t) ==
    IF token.sig # Sign(token.claims, key)
    THEN [ok |-> FALSE, error |-> "JWTError"]
    ELSE IF "exp" \in DOMAIN token.claims /\ token.claims.exp < t
    THEN [ok |-> FALSE, error |-> "JWTError"]
    ELSE [ok |-> TRUE, claims |-> token.claims]

\* dict.update: the right operand wins.
Update(d, e) ==
    [k \in DOMAIN d \cup DOMAIN e |-> IF k \in DOMAIN e THEN e[k] ELSE d[k]]

IsError(x) == "error" \in DOMAIN x

\* A mutant of create_access_token: the refresh lifetime is not doubled.
create_access_token_same_ttl(data, token_type, t) ==
    IF token_type \notin {"access", "refresh"}
    THEN Raise(500, "Something went wrong while creating token")
    ELSE jwt_encode(Update(data, [exp |-> t + ACCESS_TOKEN_EXPIRE_MINUTES]), SECRET_KEY)

\* A mutant of create_access_token: only the subject and the expiry are encoded.
create_access_token_sub_only(data, token_type, t) ==
    IF token_type \notin {"access", "refresh"}
    THEN Raise(500, "Something went wrong while creating token")
    ELSE LET expire == IF token_type = "refresh"
                       THEN t + ACCESS_TOKEN_EXPIRE_MINUTES * 2
                       ELSE t + ACCESS_TOKEN_EXPIRE_MINUTES
         IN  jwt_encode([sub |-> data.sub, exp |-> expire], SECRET_KEY)

\* create_access_token(data, token_type) at time t.  Two independent ifs set
\* expire; for any other token_type it stays unbound and the generic handler
\* turns the UnboundLocalError into a 500.
create_access_token(data, token_type, t) ==
    IF token_type \notin {"access", "refresh"}
    THEN Raise(500, "Something went wrong while creating token")
    ELSE LET expire == IF token_type = "refresh"
                       THEN t + ACCESS_TOKEN_EXPIRE_MINUTES * 2
                       ELSE t + ACCESS_TOKEN_EXPIRE_MINUTES
         IN  jwt_encode(Update(data, [exp |-> expire]), SECRET_KEY)

----------------------------------------------------------------------------
(* Local date and time.  A datetime is [minute, second, microsecond]: whole *)
(* minutes since the instant the model's clock reads 0, and the position    *)
(* within that minute.  strftime("%Y-%m-%d %H:%M:%S") renders it as a string *)
(* of 19 characters, here a sequence of one-character strings, and Python's *)
(* < on two strings compares them character by character by code point.     *)

\* The local date and the minute of the day at which the clock reads 0: ten
\* minutes before the year ends.
EpochDate == [year |-> 2023, month |-> 12, day |-> 31]
EpochMinuteOfDay == 23 * 60 + 50

\* datetime.now() when the model's clock reads t.
datetime_now(t) == [minute |-> t, second |-> 0, microsecond |-> 0]

\* dt + timedelta(minutes=n).
timedelta_minutes(dt, n) == [dt EXCEPT !.minute = @ + n]

IsLeapYear(y) == (y % 4 = 0 /\ y % 100 # 0) \/ y % 400 = 0

DaysInMonth(y, m) ==
    IF m = 2 THEN (IF IsLeapYear(y) THEN 29 ELSE 28)
    ELSE IF m \in {4, 6, 9, 11} THEN 30 ELSE 31

NextDay(d) ==
    IF d.day < DaysInMonth(d.year, d.month) THEN [d EXCEPT !.day = @ + 1]
    ELSE IF d.month < 12 THEN [d EXCEPT !.month = @ + 1, !.day = 1]
    ELSE [year |-> d.year + 1, month |-> 1, day |-> 1]

RECURSIVE AddDays(_, _)
AddDays(d, n) == IF n = 0 THEN d ELSE AddDays(NextDay(d), n - 1)

Digit(n) == <<"0", "1", "2", "3", "4", "5", "6", "7", "8", "9">>[n + 1]

\* %m, %d, %H, %M, %S: two digits, zero-padded; %Y: four digits.
Pad2(n) == <<Digit(n \div 10), Digit(n % 10)>>
Pad4(n) == <<Digit(n \div 1000), Digit((n \div 100) % 10)>> \o Pad2(n % 100)

\* A mutant of strftime: the two-digit fields are not zero-padded.
strftime_unpadded(dt) ==
    LET total == EpochMinuteOfDay + dt.minute
        date == AddDays(EpochDate, total \div 1440)
        Num(n) == IF n < 10 THEN <<Digit(n)>> ELSE Pad2(n)
    IN  Pad4(date.year) \o <<"-">> \o Num(date.month) \o <<"-">> \o Num(date.day)
        \o <<" ">> \o Num((total % 1440) \div 60) \o <<":">> \o Num(total % 60)
        \o <<":">> \o Num(dt.second)

\* dt.strftime("%Y-%m-%d %H:%M:%S"): the microseconds are dropped.
strftime(dt) ==
    LET total == EpochMinuteOfDay + dt.minute
        date == AddDays(EpochDate, total \div 1440)
    IN  Pad4(date.year) \o <<"-">> \o Pad2(date.month) \o <<"-">> \o Pad2(date.day)
        \o <<" ">> \o Pad2((total % 1440) \div 60) \o <<":">> \o Pad2(total % 60)
        \o <<":">> \o Pad2(dt.second)

\* ord(c) of the characters a rendered datetime is made of.
Ord(c) ==
    CASE c = " " -> 32
      [] c = "-" -> 45
      [] c = ":" -> 58
      [] OTHER   -> 48 + (CHOOSE n \in 0..9 : Digit(n) = c)

\* a < b on two strings: the first differing character decides; a proper
\* prefix is the smaller.
RECURSIVE StrLess(_, _)
StrLess(a, b) ==
    IF b = <<>> THEN FALSE
    ELSE IF a = <<>> THEN TRUE
    ELSE IF Head(a) # Head(b) THEN Ord(Head(a)) < Ord(Head(b))
    ELSE StrLess(Tail(a), Tail(b))

\* Lines 107 and 113: the "expiry" claim of a challenge token issued at dt.
otp_expiry(dt) == strftime(timedelta_minutes(dt, OTP_CODE_EXPIRY_MINUTES))

\* Lines 186 and 776: token_data["expiry"] < datetime.now().strftime(...).
token_expired(expiry, dt) == StrLess(expiry, strftime(dt))

----------------------------------------------------------------------------
(* internal/token.py get_current_user: the auth guard. *)

\* UserTable JOIN RoleTable ON RoleTable.id = UserTable.role_id WHERE
\* UserTable.id = userid: an inner join, so a row without a role row is not
\* returned.  Each result is the user row with the role's role_name.
JoinedById(U, R, userid) ==
    {Update(u, [role_name |-> r.role_name]) :
        <<u, r>> \in {ur \in U \X R : ur[1].id = userid /\ ur[2].id = ur[1].role_id}}

credentials_exception == Raise(401, "Could not validate credentials")

\* A mutant of get_current_user: the loop over security_scopes.scopes is
\* missing, so any known user passes.
get_current_user_any_scope(security_scopes, token, U, R, t) ==
    LET decoded == jwt_decode(token, SECRET_KEY, t)
    IN  IF ~decoded.ok THEN credentials_exception
        ELSE IF "sub" \notin DOMAIN decoded.claims
        THEN Raise(500, "Something went wrong while getting current user")
        ELSE LET rows == IF "id" \in DOMAIN decoded.claims
                         THEN JoinedById(U, R, decoded.claims.id)
                         ELSE {}
             IN  IF rows = {} THEN credentials_exception
                 ELSE [result |-> CHOOSE row \in rows : TRUE]

\* A mutant of get_current_user: the scopes are taken from the token's scopes
\* claim instead of the role of the row.
get_current_user_token_scopes(security_scopes, token, U, R, t) ==
    LET decoded == jwt_decode(token, SECRET_KEY, t)
    IN  IF ~decoded.ok THEN credentials_exception
        ELSE IF "sub" \notin DOMAIN decoded.claims
        THEN Raise(500, "Something went wrong while getting current user")
        ELSE LET rows == IF "id" \in DOMAIN decoded.claims
                         THEN JoinedById(U, R, decoded.claims.id)
                         ELSE {}
             IN  IF rows = {} THEN credentials_exception
                 ELSE LET result == CHOOSE row \in rows : TRUE
                          token_scopes == assign_scopes(decoded.claims.scopes)
                      IN  IF \E scope \in security_scopes : scope \notin Range(token_scopes)
                          THEN Raise(401, "Not enough permissions")
                          ELSE [result |-> result]

\* get_current_user(security_scopes, token) against tables U, R at time t.
\* The raise of credentials_exception for a missing sub sits inside the try
\* block whose last handler catches every Exception, so it leaves as a 500.
get_current_user(security_scopes, token, U, R, t) ==
    LET decoded == jwt_decode(token, SECRET_KEY, t)
    IN  IF ~decoded.ok THEN credentials_exception
        ELSE IF "sub" \notin DOMAIN decoded.claims
        THEN Raise(500, "Something went wrong while getting current user")
        ELSE LET rows == IF "id" \in DOMAIN decoded.claims
                         THEN JoinedById(U, R, decoded.claims.id)
                         ELSE {}
             IN  IF rows = {} THEN credentials_exception
                 ELSE LET result == CHOOSE row \in rows : TRUE
                          token_scopes == assign_scopes(<<Upper(result.role_name)>>)
                      IN  IF \E scope \in security_scopes : scope \notin Range(token_scopes)
                          THEN Raise(401, "Not enough permissions")
                          ELSE [result |-> result]

----------------------------------------------------------------------------
(* Requests.  A request is [op, pc, bearer, arg, current_user, loc, resp,   *)
(* pre]: the endpoint, the statement it is about to execute, the bearer     *)
(* token of its Authorization header, its body, the row the guard hands to  *)
(* the handler, the handler's locals and, once pc is "done", its response.  *)
(* pre records the store, the clock and the tokens in circulation as the    *)
(* request found them when it arrived.                                      *)

Slots == {1}

Empty == <<>>

\* No Authorization header.
NoBearer == [claims |-> [none |-> TRUE], sig |-> <<>>]

\* A string that is not a JWT at all.
Garbage == [claims |-> [garbage |-> TRUE], sig |-> <<>>]

\* A token whose claims were signed under a key that is not SECRET_KEY.
Forge(token) == [token EXCEPT !.sig = Sign(token.claims, "attacker key")]

Idle == [op |-> "idle", pc |-> "idle", bearer |-> NoBearer, arg |-> Empty,
         current_user |-> Empty, loc |-> Empty, resp |-> Empty, pre |-> Empty]

\* Security(get_current_active_user, scopes=[...]) of each endpoint.
required_scopes ==
    [set_role        |-> {Role.SUPER_ADMIN},
     get_all_users   |-> {Role.SUPER_ADMIN},
     create_role     |-> {Role.SUPER_ADMIN},
     get_role        |-> {Role.SUPER_ADMIN},
     get_all_roles   |-> {Role.SUPER_ADMIN},
     update_role     |-> {Role.SUPER_ADMIN},
     patch_role      |-> {Role.SUPER_ADMIN},
     delete_role     |-> {Role.SUPER_ADMIN},
     get_user        |-> {Role.REPORTING_USER},
     update_user     |-> {Role.REPORTING_USER},
     patch_user      |-> {Role.REPORTING_USER},
     delete_user     |-> {Role.REPORTING_USER},
     change_password |-> {Role.REPORTING_USER}]

Guarded(op) == op \in DOMAIN required_scopes

Request(op, bearer, arg) ==
    [op |-> op, pc |-> IF Guarded(op) THEN "guard" ELSE op, bearer |-> bearer,
     arg |-> arg, current_user |-> Empty, loc |-> Empty, resp |-> Empty,
     pre |-> Empty]

Response(status, detail) == [status |-> status, detail |-> detail]

\* The response an HTTPException becomes.
AsResponse(exc) == Response(exc.status, exc.detail)

Busy(s) == req[s].pc \notin {"idle", "done"}

\* The request of slot s ends with response resp.
Finish(s, resp) ==
    req' = [req EXCEPT ![s] = [@ EXCEPT !.pc = "done", !.resp = resp]]

\* The request of slot s moves on to statement pc with locals loc.
Goto(s, pc, loc) ==
    req' = [req EXCEPT ![s] = [@ EXCEPT !.pc = pc, !.loc = loc]]

\* The generic `except Exception` of the handlers in usr_user.py / usr_role.py.
SomethingWentWrong == Response(500, "Something went wrong")

\* What the three-way except chain of a handler makes of a failed statement.
ConstraintResponse(err) ==
    CASE err = UniqueViolationError     -> Response(409, "Unique key constraint fails")
      [] err = ForeignKeyViolationError -> Response(409, "Foreign key constraint fails")
      [] OTHER                          -> SomethingWentWrong

----------------------------------------------------------------------------
(* The guard step of a protected endpoint: oauth2_scheme, get_current_user  *)
(* and get_current_active_user run before the handler; their one awaited    *)
(* statement is the joined select.                                          *)

\* A mutant of guard: a token the guard has authorized before is let through
\* without consulting the store again.
guard_sticky(s) ==
    /\ req[s].pc = "guard"
    /\ LET out == get_current_user(required_scopes[req[s].op], req[s].bearer,
                                   UserTable, RoleTable, now)
       IN  IF req[s].bearer \in granted
           THEN /\ req' = [req EXCEPT ![s] = [@ EXCEPT !.pc = req[s].op,
                                                       !.current_user = [cached |-> TRUE]]]
                /\ UNCHANGED granted
           ELSE IF req[s].bearer = NoBearer
           THEN /\ Finish(s, Response(401, "Not authenticated"))
                /\ UNCHANGED granted
           ELSE IF IsError(out)
           THEN /\ Finish(s, AsResponse(out))
                /\ UNCHANGED granted
           ELSE /\ req' = [req EXCEPT ![s] = [@ EXCEPT !.pc = req[s].op,
                                                       !.current_user = out.result]]
                /\ granted' = granted \cup {req[s].bearer}
    /\ UNCHANGED <<UserTable, RoleTable, role_seq, now, served, ticks, issued,
                   mailed, call>>

guard(s) ==
    /\ req[s].pc = "guard"
    /\ LET out == get_current_user(required_scopes[req[s].op], req[s].bearer,
                                   UserTable, RoleTable, now)
       IN  IF req[s].bearer = NoBearer
           THEN /\ Finish(s, Response(401, "Not authenticated"))
                /\ UNCHANGED granted
           ELSE IF IsError(out)
           THEN /\ Finish(s, AsResponse(out))
                /\ UNCHANGED granted
           ELSE /\ req' = [req EXCEPT ![s] = [@ EXCEPT !.pc = req[s].op,
                                                       !.current_user = out.result]]
                /\ granted' = granted \cup {req[s].bearer}
    /\ UNCHANGED <<UserTable, RoleTable, role_seq, now, served, ticks, issued,
                   mailed, call>>

----------------------------------------------------------------------------
(* routers/usr_auth.py log_in. *)

LowerUsername(u) == [u EXCEPT !.base = Lower(@)]

\* A mutant of log_in_response: the password is not verified.
log_in_response_no_verify(form, U, t) ==
    LET rows == ByUsername(U, LowerUsername(form.username))
    IN  IF rows = {} THEN Response(404, "User not found")
        ELSE LET user_result == CHOOSE u \in rows : TRUE
                 access_token ==
                     create_access_token(
                         [sub |-> user_result.username, scopes |-> form.scopes,
                          id |-> user_result.id], "access", t)
             IN  [status |-> 200, detail |-> "bearer", access_token |-> access_token]

\* The body of log_in for the form (username, password, scopes) on table U
\* at time t: the response, with the access token when there is one.
log_in_response(form, U, t) ==
    LET rows == ByUsername(U, LowerUsername(form.username))
    IN  IF rows = {} THEN Response(404, "User not found")
        ELSE LET user_result == CHOOSE u \in rows : TRUE
             IN  IF user_result.password = NoPassword
                 THEN \* verify(secret, None) raises TypeError
                      Response(400, "Error in authorizing credentials, Please try again")
                 ELSE IF ~pbkdf2_sha256_verify(form.password, user_result.password)
                 THEN Response(400, "Password is incorrect")
                 ELSE LET access_token ==
                              create_access_token(
                                  [sub |-> user_result.username,
                                   scopes |-> form.scopes,
                                   id |-> user_result.id], "access", t)
                      IN  IF IsError(access_token)
                          THEN Response(400, "Error in authorizing credentials, Please try again")
                          ELSE [status |-> 200, detail |-> "bearer",
                                access_token |-> access_token]

log_in(s) ==
    /\ req[s].pc = "log_in"
    /\ LET resp == log_in_response(req[s].arg, UserTable, now)
       IN  /\ Finish(s, resp)
           /\ issued' = IF resp.status = 200
                        THEN issued \cup {resp.access_token} ELSE issued
    /\ UNCHANGED <<UserTable, RoleTable, role_seq, now, served, ticks, mailed,
                   granted, call>>

----------------------------------------------------------------------------
(* routers/usr_user.py create_user. *)

\* The OTP challenge token built by create_user and request_reset_password.
challenge_token(email, otp_code, t) ==
    jwt_encode([email |-> email, token |-> otp_code,
                expiry |-> otp_expiry(datetime_now(t))], SECRET_KEY)

\* UserTable.insert().values(...): NOT NULL is checked first, then the unique
\* indexes, then the foreign key.  No row of this model is ever inserted
\* twice, so the new id is one past the largest id in the table.
InsertUser(U, R, values) ==
    LET ids == {u.id : u \in U} \cup {0}
        id == 1 + CHOOSE m \in ids : \A n \in ids : n <= m
        row == Update(Update(UserDefaults, values), [id |-> id])
    IN  IF \E c \in UserNotNull : c \notin DOMAIN values
        THEN [err |-> NotNullViolationError, table |-> U]
        ELSE IF ~UserUnique(U \cup {row})
        THEN [err |-> UniqueViolationError, table |-> U]
        ELSE IF ~UserForeignKey({row}, R)
        THEN [err |-> ForeignKeyViolationError, table |-> U]
        ELSE [err |-> Ok, table |-> U \cup {row}]

\* The values create_user inserts.
create_user_values(email, username, otp_code) ==
    [email |-> email, username |-> username, email_otp |-> otp_code,
     email_verified |-> FALSE]

\* A mutant of create_user_email: an unverified row does not stop the
\* registration, which goes on to issue a fresh code.
create_user_email_reissue(s) ==
    /\ req[s].pc = "create_user"
    /\ LET email_result == ByEmail(UserTable, req[s].arg.email)
       IN  IF email_result # {} /\ (CHOOSE u \in email_result : TRUE).email_verified
           THEN Finish(s, Response(409, "Email already verified"))
           ELSE Goto(s, "create_user_username",
                     [username |-> Username(req[s].arg.email[1])])
    /\ UNCHANGED <<UserTable, RoleTable, role_seq, now, served, ticks, issued,
                   mailed, granted, call>>

\* Lines 84-96: the lookup by email.
create_user_email(s) ==
    /\ req[s].pc = "create_user"
    /\ LET email_result == ByEmail(UserTable, req[s].arg.email)
       IN  IF email_result # {}
           THEN IF (CHOOSE u \in email_result : TRUE).email_verified
                THEN Finish(s, Response(409, "Email already verified"))
                ELSE Finish(s, Response(409, "Email already exists"))
           ELSE Goto(s, "create_user_username",
                     [username |-> Username(req[s].arg.email[1])])
    /\ UNCHANGED <<UserTable, RoleTable, role_seq, now, served, ticks, issued,
                   mailed, granted, call>>

\* Lines 98-125: the lookup by username, the OTP code and the challenge token.
create_user_username(s) ==
    /\ req[s].pc = "create_user_username"
    /\ \E otp_code \in OtpCodes, micro \in Microseconds :
         LET taken == ByUsername(UserTable, req[s].loc.username) # {}
             username == IF taken THEN [req[s].loc.username EXCEPT !.micro = micro]
                         ELSE req[s].loc.username
         IN  Goto(s, "create_user_send",
                  [username |-> username, otp_code |-> otp_code,
                   encoded_jwt |-> challenge_token(req[s].arg.email, otp_code, now)])
    /\ UNCHANGED <<UserTable, RoleTable, role_seq, now, served, ticks, issued,
                   mailed, granted, call>>

\* Lines 127-128: send_email either delivers the link or raises, and the
\* HTTPException it raises is caught by the handler's generic except.
create_user_send(s) ==
    /\ req[s].pc = "create_user_send"
    /\ \/ /\ mailed' = mailed \cup {req[s].loc.encoded_jwt}
          /\ Goto(s, "create_user_insert",
                  Update(req[s].loc, [email_otp_response |-> 200]))
       \/ /\ Finish(s, SomethingWentWrong)
          /\ UNCHANGED mailed
    /\ UNCHANGED <<UserTable, RoleTable, role_seq, now, served, ticks, issued,
                   granted, call>>

\* Lines 130-159: the insert and the except chain.
create_user_insert(s) ==
    /\ req[s].pc = "create_user_insert"
    /\ LET done == InsertUser(UserTable, RoleTable,
                              create_user_values(req[s].arg.email, req[s].loc.username,
                                                 req[s].loc.otp_code))
       IN  /\ UserTable' = done.table
           /\ Finish(s, IF done.err = Ok
                        THEN Response(201, "User created successfully")
                        ELSE ConstraintResponse(done.err))
    /\ UNCHANGED <<RoleTable, role_seq, now, served, ticks, issued, mailed,
                   granted, call>>

\* The confirmation email of the seeded reporting user: the challenge token
\* that carries the code stored in the row, dispatched at time 0.
SeedMailed == {challenge_token(AnnEmail, "100000", 0)}

----------------------------------------------------------------------------
(* routers/usr_user.py set_password. *)

Proceed(loc) == [proceed |-> TRUE, loc |-> loc]

\* A mutant of set_password_check: the code in the token is not compared with
\* the code in the row.
set_password_check_no_otp(record, U, t) ==
    LET decoded == jwt_decode(record.token, SECRET_KEY, t)
    IN  IF ~decoded.ok THEN Response(401, "Invalid token")
        ELSE LET token_data == decoded.claims
             IN  IF {"expiry", "email", "token"} \ DOMAIN token_data # {}
                 THEN SomethingWentWrong
                 ELSE IF token_expired(token_data.expiry, datetime_now(t))
                 THEN Response(401, "Token expired")
                 ELSE LET email_result == ByEmail(U, token_data.email)
                      IN  IF email_result = {}
                          THEN Response(404, "User not found")
                          ELSE IF (CHOOSE u \in email_result : TRUE).email_verified
                          THEN Response(409, "Email already verified")
                          ELSE Proceed([email |-> token_data.email])

\* Lines 183-206: decode the challenge token, compare its expiry with the
\* clock, look the email up and compare the codes.  The outcome is the early
\* response, or Proceed to the update.  A validly signed token without the
\* expiry claim (a session token) raises KeyError.
set_password_check(record, U, t) ==
    LET decoded == jwt_decode(record.token, SECRET_KEY, t)
    IN  IF ~decoded.ok THEN Response(401, "Invalid token")
        ELSE LET token_data == decoded.claims
             IN  IF {"expiry", "email", "token"} \ DOMAIN token_data # {}
                 THEN SomethingWentWrong
                 ELSE IF token_expired(token_data.expiry, datetime_now(t))
                 THEN Response(401, "Token expired")
                 ELSE LET email_result == ByEmail(U, token_data.email)
                      IN  IF email_result = {}
                          THEN Response(404, "User not found")
                          ELSE LET row == CHOOSE u \in email_result : TRUE
                               IN  IF row.email_verified
                                   THEN Response(409, "Email already verified")
                                   ELSE IF row.email_otp # token_data.token
                                   THEN Response(401, "OTP Code is incorrect")
                                   ELSE Proceed([email |-> token_data.email])

\* A mutant of set_password_values: the stored code is not cleared.
set_password_values_keep_otp(password) ==
    [password |-> pbkdf2_sha256_hash(password), email_verified |-> TRUE]

\* Lines 209-210: the values of the update.
set_password_values(password) ==
    [password |-> pbkdf2_sha256_hash(password), email_otp |-> NULL,
     email_verified |-> TRUE]

\* UserTable.update().where(email == e).values(...): every matching row.
UpdateByEmail(U, email, values) ==
    {IF u.email = email THEN Update(u, values) ELSE u : u \in U}

set_password(s) ==
    /\ req[s].pc = "set_password"
    /\ LET out == set_password_check(req[s].arg, UserTable, now)
       IN  IF "proceed" \in DOMAIN out
           THEN Goto(s, "set_password_update", out.loc)
           ELSE Finish(s, out)
    /\ UNCHANGED <<UserTable, RoleTable, role_seq, now, served, ticks, issued,
                   mailed, granted, call>>

set_password_update(s) ==
    /\ req[s].pc = "set_password_update"
    /\ UserTable' = UpdateByEmail(UserTable, req[s].loc.email,
                                  set_password_values(req[s].arg.password))
    /\ Finish(s, Response(200, "Password set successfully"))
    /\ UNCHANGED <<RoleTable, role_seq, now, served, ticks, issued, mailed,
                   granted, call>>

----------------------------------------------------------------------------
(* routers/usr_user.py request_reset_password and reset_password. *)

\* Lines 692-698: the lookup by email; then the OTP code and the token.
request_reset_password(s) ==
    /\ req[s].pc = "request_reset_password"
    /\ IF ByEmail(UserTable, req[s].arg.email) = {}
       THEN Finish(s, Response(404, "User not found"))
       ELSE \E otp_code \in OtpCodes :
              Goto(s, "request_reset_password_send",
                   [otp_code |-> otp_code,
                    encoded_jwt |-> challenge_token(req[s].arg.email, otp_code, now)])
    /\ UNCHANGED <<UserTable, RoleTable, role_seq, now, served, ticks, issued,
                   mailed, granted, call>>

\* A mutant of request_reset_password_send: the code is stored before the
\* outcome of the dispatch is known, so a failed dispatch leaves it in the row.
request_reset_password_send_persist_first(s) ==
    /\ req[s].pc = "request_reset_password_send"
    /\ \/ /\ mailed' = mailed \cup {req[s].loc.encoded_jwt}
          /\ Goto(s, "request_reset_password_update",
                  Update(req[s].loc, [email_otp_response |-> 200]))
          /\ UNCHANGED UserTable
       \/ /\ Finish(s, SomethingWentWrong)
          /\ UserTable' = UpdateByEmail(UserTable, req[s].arg.email,
                                        [password_otp |-> req[s].loc.otp_code,
                                         password_verified |-> FALSE])
          /\ UNCHANGED mailed
    /\ UNCHANGED <<RoleTable, role_seq, now, served, ticks, issued,
                   granted, call>>

\* Lines 722-723: the dispatch.
request_reset_password_send(s) ==
    /\ req[s].pc = "request_reset_password_send"
    /\ \/ /\ mailed' = mailed \cup {req[s].loc.encoded_jwt}
          /\ Goto(s, "request_reset_password_update",
                  Update(req[s].loc, [email_otp_response |-> 200]))
       \/ /\ Finish(s, SomethingWentWrong)
          /\ UNCHANGED mailed
    /\ UNCHANGED <<UserTable, RoleTable, role_seq, now, served, ticks, issued,
                   granted, call>>

\* Lines 726-727: the values of the update.
request_reset_password_values(otp_code) ==
    [password_otp |-> otp_code, password_verified |-> FALSE]

\* Lines 725-730: the update, then `return email_otp_response.json()`.  What
\* send_email returned is a JSONResponse, which has no json method: the
\* AttributeError leaves through the generic except after the row was updated.
request_reset_password_update(s) ==
    /\ req[s].pc = "request_reset_password_update"
    /\ UserTable' = UpdateByEmail(UserTable, req[s].arg.email,
                                  request_reset_password_values(req[s].loc.otp_code))
    /\ Finish(s, SomethingWentWrong)
    /\ UNCHANGED <<RoleTable, role_seq, now, served, ticks, issued, mailed,
                   granted, call>>

\* A mutant of reset_password_check: the code in the token is not compared
\* with the code in the row.
reset_password_check_no_otp(record, U, t) ==
    LET decoded == jwt_decode(record.token, SECRET_KEY, t)
    IN  IF ~decoded.ok THEN SomethingWentWrong
        ELSE LET token_data == decoded.claims
             IN  IF {"expiry", "email", "token"} \ DOMAIN token_data # {}
                 THEN SomethingWentWrong
                 ELSE IF token_expired(token_data.expiry, datetime_now(t))
                 THEN Response(401, "Token expired")
                 ELSE LET email_result == ByEmail(U, token_data.email)
                      IN  IF email_result = {}
                          THEN Response(404, "Email does not exist")
                          ELSE IF (CHOOSE u \in email_result : TRUE).password_verified
                          THEN Response(409, "Password already verified")
                          ELSE Proceed([email |-> token_data.email])

\* Lines 773-796.  jwt.decode sits inside the try block, and reset_password
\* has no `except JWTError`: a token that does not decode leaves as a 500.
reset_password_check(record, U, t) ==
    LET decoded == jwt_decode(record.token, SECRET_KEY, t)
    IN  IF ~decoded.ok THEN SomethingWentWrong
        ELSE LET token_data == decoded.claims
             IN  IF {"expiry", "email", "token"} \ DOMAIN token_data # {}
                 THEN SomethingWentWrong
                 ELSE IF token_expired(token_data.expiry, datetime_now(t))
                 THEN Response(401, "Token expired")
                 ELSE LET email_result == ByEmail(U, token_data.email)
                      IN  IF email_result = {}
                          THEN Response(404, "Email does not exist")
                          ELSE LET row == CHOOSE u \in email_result : TRUE
                               IN  IF row.password_verified
                                   THEN Response(409, "Password already verified")
                                   ELSE IF row.password_otp # token_data.token
                                   THEN Response(401, "OTP Code is incorrect")
                                   ELSE Proceed([email |-> token_data.email])

\* Lines 799-800: the values of the update.
\* A mutant of reset_password_values: the stored code is not cleared.
reset_password_values_keep_otp(password) ==
    [password |-> pbkdf2_sha256_hash(password), password_verified |-> TRUE]

reset_password_values(password) ==
    [password |-> pbkdf2_sha256_hash(password), password_otp |-> NULL,
     password_verified |-> TRUE]

reset_password(s) ==
    /\ req[s].pc = "reset_password"
    /\ LET out == reset_password_check(req[s].arg, UserTable, now)
       IN  IF "proceed" \in DOMAIN out
           THEN Goto(s, "reset_password_update", out.loc)
           ELSE Finish(s, out)
    /\ UNCHANGED <<UserTable, RoleTable, role_seq, now, served, ticks, issued,
                   mailed, granted, call>>

reset_password_update(s) ==
    /\ req[s].pc = "reset_password_update"
    /\ UserTable' = UpdateByEmail(UserTable, req[s].loc.email,
                                  reset_password_values(req[s].arg.password))
    /\ Finish(s, Response(200, "Password set successfully"))
    /\ UNCHANGED <<RoleTable, role_seq, now, served, ticks, issued, mailed,
                   granted, call>>

----------------------------------------------------------------------------
(* Statements that change rows of usr_user, with the constraints checked.  *)

UpdateById(U, id, values) ==
    {IF u.id = id THEN Update(u, values) ELSE u : u \in U}

\* The outcome of replacing table U by T under roles R.
Checked(U, R, T) ==
    IF ~UserNotNullOk(T) THEN [err |-> NotNullViolationError, table |-> U]
    ELSE IF ~UserUnique(T) THEN [err |-> UniqueViolationError, table |-> U]
    ELSE IF ~UserForeignKey(T, R) THEN [err |-> ForeignKeyViolationError, table |-> U]
    ELSE [err |-> Ok, table |-> T]

\* A handler calls get_role / get_user directly and tests .status_code on
\* what comes back.  For a missing row that is the JSONResponse(404).  For a
\* row it is a databases Record, whose attribute lookup of a name that is no
\* column yields None, so the test is false and the handler goes on.
Found(rows) == rows # {}

----------------------------------------------------------------------------
(* routers/usr_user.py set_role. *)

\* A mutant of set_role: the role is not looked up before the update.
set_role_unchecked(s) ==
    /\ req[s].pc = "set_role"
    /\ Goto(s, "set_role_update", Empty)
    /\ UNCHANGED <<UserTable, RoleTable, role_seq, now, served, ticks, issued,
                   mailed, granted, call>>

\* Lines 264-270: get_role(role_id).
set_role(s) ==
    /\ req[s].pc = "set_role"
    /\ IF Found(ById(RoleTable, req[s].arg.role_id))
       THEN Goto(s, "set_role_update", Empty)
       ELSE Finish(s, Response(404, "Role does not exist"))
    /\ UNCHANGED <<UserTable, RoleTable, role_seq, now, served, ticks, issued,
                   mailed, granted, call>>

\* Lines 273-274: the values of the update.
set_role_values(record) == [role_id |-> record.role_id]

\* Lines 272-286: the update; set_role has only the generic except.
set_role_update(s) ==
    /\ req[s].pc = "set_role_update"
    /\ LET done == Checked(UserTable, RoleTable,
                           UpdateById(UserTable, req[s].arg.user_id,
                                      set_role_values(req[s].arg)))
       IN  /\ UserTable' = done.table
           /\ Finish(s, IF done.err = Ok
                        THEN Response(200, "Role set successfully")
                        ELSE SomethingWentWrong)
    /\ UNCHANGED <<RoleTable, role_seq, now, served, ticks, issued, mailed,
                   granted, call>>

----------------------------------------------------------------------------
(* routers/usr_user.py get_user, get_all_users, delete_user. *)

get_user(s) ==
    /\ req[s].pc = "get_user"
    /\ IF Found(ById(UserTable, req[s].arg.user_id))
       THEN Finish(s, Response(200, "User details fetched successfully"))
       ELSE Finish(s, Response(404, "User not found"))
    /\ UNCHANGED <<UserTable, RoleTable, role_seq, now, served, ticks, issued,
                   mailed, granted, call>>

get_all_users(s) ==
    /\ req[s].pc = "get_all_users"
    /\ Finish(s, Response(200, "Users fetched successfully"))
    /\ UNCHANGED <<UserTable, RoleTable, role_seq, now, served, ticks, issued,
                   mailed, granted, call>>

\* delete ... returning: no row gives 404; otherwise the handler falls off
\* its end and the response is 200 with an empty body.
delete_user(s) ==
    /\ req[s].pc = "delete_user"
    /\ IF Found(ById(UserTable, req[s].arg.user_id))
       THEN /\ UserTable' = UserTable \ ById(UserTable, req[s].arg.user_id)
            /\ Finish(s, Response(200, "null"))
       ELSE /\ UNCHANGED UserTable
            /\ Finish(s, Response(404, "User not found"))
    /\ UNCHANGED <<RoleTable, role_seq, now, served, ticks, issued, mailed,
                   granted, call>>

----------------------------------------------------------------------------
(* routers/usr_user.py update_user and patch_user. *)

\* Lines 439-446 and 522-529: get_user(user_id), then the test of
\* record.username.  patch_user keeps the row it read.
update_user(s) ==
    /\ req[s].pc = "update_user"
    /\ IF ~Found(ById(UserTable, req[s].arg.user_id))
       THEN Finish(s, Response(404, "User not found"))
       ELSE IF req[s].arg.record.username # NullUsername
       THEN Goto(s, "update_user_username", Empty)
       ELSE Goto(s, "update_user_update", Empty)
    /\ UNCHANGED <<UserTable, RoleTable, role_seq, now, served, ticks, issued,
                   mailed, granted, call>>

\* Lines 449-455.
update_user_username(s) ==
    /\ req[s].pc = "update_user_username"
    /\ IF ByUsername(UserTable, req[s].arg.record.username) # {}
       THEN Finish(s, Response(409, "Username already exists"))
       ELSE Goto(s, "update_user_update", Empty)
    /\ UNCHANGED <<UserTable, RoleTable, role_seq, now, served, ticks, issued,
                   mailed, granted, call>>

\* Line 458: {**record.dict(), "is_active": True}; record.dict() holds every
\* field of UserUpdateSchema, the ones left out as None.
update_user_values(record) == Update(record, [is_active |-> TRUE])

\* Lines 457-480.
update_user_update(s) ==
    /\ req[s].pc = "update_user_update"
    /\ LET done == Checked(UserTable, RoleTable,
                           UpdateById(UserTable, req[s].arg.user_id,
                                      update_user_values(req[s].arg.record)))
       IN  /\ UserTable' = done.table
           /\ Finish(s, IF done.err = Ok
                        THEN Response(200, "User updated successfully")
                        ELSE ConstraintResponse(done.err))
    /\ UNCHANGED <<RoleTable, role_seq, now, served, ticks, issued, mailed,
                   granted, call>>

patch_user(s) ==
    /\ req[s].pc = "patch_user"
    /\ LET rows == ById(UserTable, req[s].arg.user_id)
       IN  IF ~Found(rows)
           THEN Finish(s, Response(404, "User not found"))
           ELSE IF "username" \in DOMAIN req[s].arg.record
                   /\ req[s].arg.record.username # NullUsername
           THEN Goto(s, "patch_user_username", [result |-> CHOOSE u \in rows : TRUE])
           ELSE Goto(s, "patch_user_update", [result |-> CHOOSE u \in rows : TRUE])
    /\ UNCHANGED <<UserTable, RoleTable, role_seq, now, served, ticks, issued,
                   mailed, granted, call>>

\* Lines 532-538.
patch_user_username(s) ==
    /\ req[s].pc = "patch_user_username"
    /\ IF ByUsername(UserTable, req[s].arg.record.username) # {}
       THEN Finish(s, Response(409, "Username already exists"))
       ELSE Goto(s, "patch_user_update", req[s].loc)
    /\ UNCHANGED <<UserTable, RoleTable, role_seq, now, served, ticks, issued,
                   mailed, granted, call>>

\* The columns UserReadSchema carries.
UserReadFields == {"id", "first_name", "city", "username", "email", "is_active",
                   "role_id"}

\* Lines 540-543: UserReadSchema(**result).copy(update=record.dict(
\* exclude_unset=True)), then is_active: the row as it was read, restricted to
\* the schema's fields, overlaid with the fields the request supplies.
patch_user_values(result, record) ==
    Update(Update([f \in UserReadFields |-> result[f]], record), [is_active |-> TRUE])

\* Lines 542-565.
patch_user_update(s) ==
    /\ req[s].pc = "patch_user_update"
    /\ LET done == Checked(UserTable, RoleTable,
                           UpdateById(UserTable, req[s].arg.user_id,
                                      patch_user_values(req[s].loc.result,
                                                        req[s].arg.record)))
       IN  /\ UserTable' = done.table
           /\ Finish(s, IF done.err = Ok
                        THEN Response(200, "User partially updated successfully")
                        ELSE ConstraintResponse(done.err))
    /\ UNCHANGED <<RoleTable, role_seq, now, served, ticks, issued, mailed,
                   granted, call>>

----------------------------------------------------------------------------
(* routers/usr_user.py change_password. *)

\* Lines 632-643.  verify on a NULL hash raises; the HTTPException for a
\* wrong old password is raised inside the try block: both leave through the
\* generic except.
change_password_check(record, rows) ==
    IF rows = {} THEN Response(404, "User not found")
    ELSE LET result == CHOOSE u \in rows : TRUE
         IN  IF result.password = NoPassword THEN SomethingWentWrong
             ELSE IF ~pbkdf2_sha256_verify(record.old_password, result.password)
             THEN SomethingWentWrong
             ELSE Proceed(Empty)

change_password(s) ==
    /\ req[s].pc = "change_password"
    /\ LET out == change_password_check(req[s].arg, ById(UserTable, req[s].arg.user_id))
       IN  IF "proceed" \in DOMAIN out
           THEN Goto(s, "change_password_update", Empty)
           ELSE Finish(s, out)
    /\ UNCHANGED <<UserTable, RoleTable, role_seq, now, served, ticks, issued,
                   mailed, granted, call>>

\* Line 646: the values of the update.
change_password_values(record) == [password |-> pbkdf2_sha256_hash(record.new_password)]

change_password_update(s) ==
    /\ req[s].pc = "change_password_update"
    /\ UserTable' = UpdateById(UserTable, req[s].arg.user_id,
                               change_password_values(req[s].arg))
    /\ Finish(s, Response(200, "Password changed successfully"))
    /\ UNCHANGED <<RoleTable, role_seq, now, served, ticks, issued, mailed,
                   granted, call>>

----------------------------------------------------------------------------
(* routers/usr_role.py: the role endpoints. *)

\* Lines 64-87: the insert draws the next id of the sequence, also when the
\* unique index then rejects the row.
create_role(s) ==
    /\ req[s].pc = "create_role"
    /\ role_seq' = role_seq + 1
    /\ LET row == RoleRow(role_seq + 1, req[s].arg.role_name)
       IN  IF RoleUnique(RoleTable \cup {row})
           THEN /\ RoleTable' = RoleTable \cup {row}
                /\ Finish(s, Response(201, "Role created successfully"))
           ELSE /\ UNCHANGED RoleTable
                /\ Finish(s, ConstraintResponse(UniqueViolationError))
    /\ UNCHANGED <<UserTable, now, served, ticks, issued, mailed, granted, call>>

\* Lines 119-127.
get_role(s) ==
    /\ req[s].pc = "get_role"
    /\ IF Found(ById(RoleTable, req[s].arg.role_id))
       THEN Finish(s, Response(200, "Role details fetched successfully"))
       ELSE Finish(s, Response(404, "Role not found"))
    /\ UNCHANGED <<UserTable, RoleTable, role_seq, now, served, ticks, issued,
                   mailed, granted, call>>

get_all_roles(s) ==
    /\ req[s].pc = "get_all_roles"
    /\ Finish(s, Response(200, "Roles details fetched successfully"))
    /\ UNCHANGED <<UserTable, RoleTable, role_seq, now, served, ticks, issued,
                   mailed, granted, call>>

RoleUpdateById(R, id, values) ==
    {IF r.id = id THEN Update(r, values) ELSE r : r \in R}

\* The outcome of replacing role table R by Q.
RoleChecked(R, Q) ==
    IF ~RoleUnique(Q) THEN [err |-> UniqueViolationError, table |-> R]
    ELSE [err |-> Ok, table |-> Q]

\* Lines 208-236: update ... returning; no row gives 404.
update_role(s) ==
    /\ req[s].pc = "update_role"
    /\ LET done == RoleChecked(RoleTable,
                               RoleUpdateById(RoleTable, req[s].arg.role_id,
                                              [role_name |-> req[s].arg.role_name]))
       IN  /\ RoleTable' = done.table
           /\ Finish(s, IF done.err # Ok THEN ConstraintResponse(done.err)
                        ELSE IF ~Found(ById(RoleTable, req[s].arg.role_id))
                        THEN Response(404, "Role not found")
                        ELSE Response(202, "Role updated successfully"))
    /\ UNCHANGED <<UserTable, role_seq, now, served, ticks, issued, mailed,
                   granted, call>>

\* Lines 268-274: get_role(role_id); the row read is kept.
patch_role(s) ==
    /\ req[s].pc = "patch_role"
    /\ LET rows == ById(RoleTable, req[s].arg.role_id)
       IN  IF Found(rows)
           THEN Goto(s, "patch_role_update", [result |-> CHOOSE r \in rows : TRUE])
           ELSE Finish(s, Response(404, "Role not found"))
    /\ UNCHANGED <<UserTable, RoleTable, role_seq, now, served, ticks, issued,
                   mailed, granted, call>>

\* Line 276: RoleReadSchema(**result).copy(update=record.dict(exclude_unset=True)).
patch_role_values(result, record) == Update(result, record)

\* Lines 278-300.
patch_role_update(s) ==
    /\ req[s].pc = "patch_role_update"
    /\ LET done == RoleChecked(RoleTable,
                               RoleUpdateById(RoleTable, req[s].arg.role_id,
                                              patch_role_values(req[s].loc.result,
                                                                req[s].arg.record)))
       IN  /\ RoleTable' = done.table
           /\ Finish(s, IF done.err = Ok
                        THEN Response(202, "Role partially updated successfully")
                        ELSE ConstraintResponse(done.err))
    /\ UNCHANGED <<UserTable, role_seq, now, served, ticks, issued, mailed,
                   granted, call>>

\* Lines 326-339: delete ... returning.  A role some user row still refers to
\* cannot be deleted; delete_role has only the generic except.
delete_role(s) ==
    /\ req[s].pc = "delete_role"
    /\ LET rows == ById(RoleTable, req[s].arg.role_id)
       IN  IF ~Found(rows)
           THEN /\ UNCHANGED RoleTable
                /\ Finish(s, Response(404, "Role not found"))
           ELSE IF ~UserForeignKey(UserTable, RoleTable \ rows)
           THEN /\ UNCHANGED RoleTable
                /\ Finish(s, SomethingWentWrong)
           ELSE /\ RoleTable' = RoleTable \ rows
                /\ Finish(s, Response(204, "null"))
    /\ UNCHANGED <<UserTable, role_seq, now, served, ticks, issued, mailed,
                   granted, call>>

----------------------------------------------------------------------------
(* The environment: clients sending requests, and the clock. *)

\* Bearer tokens a client can present: a token some log_in returned; or a
\* forgery of one, a challenge token some email carried, or none at all.
\* The guard does not read the request body, so the latter are presented to
\* one endpoint of each required scope.
BearerInputs == issued
BadBearerInputs == {Forge(t) : t \in issued} \cup mailed \cup {NoBearer}

\* The token field of set_password / reset_password: a challenge token some
\* email carried; or a forgery of one, a session token, or no JWT at all.
ChallengeInputs == mailed
BadChallengeInputs == {Forge(t) : t \in mailed} \cup issued \cup {Garbage}

LoginNames == {Username("ROOT"), Username("ann"), Username("bob")}
RequestedScopes == {<<>>, <<Role.SUPER_ADMIN>>}

UserArgIds == {1, 2}
RoleArgIds == {1, 5, 6}
RoleArgNames == {"super_admin", "reporting_user"}

UpdateRecords ==
    [first_name : {"Zed"}, username : {NullUsername, Username("zed"), Username("ann")},
     city : {NULL}]

PatchRecords ==
    {Empty, [first_name |-> "Zed"], [username |-> Username("zed")],
     [username |-> Username("ann")]}

OpenRequests ==
    {Request("log_in", NoBearer, [username |-> u, password |-> p, scopes |-> sc]) :
        u \in LoginNames, p \in Passwords, sc \in RequestedScopes}
    \cup {Request("create_user", NoBearer, [email |-> e]) : e \in Emails}
    \cup {Request("request_reset_password", NoBearer, [email |-> e]) :
            e \in {AnnEmail, Email("bob", "x.com")}}
    \cup {Request("set_password", NoBearer, [token |-> t, password |-> p]) :
            t \in ChallengeInputs, p \in Passwords}
    \cup {Request("reset_password", NoBearer, [token |-> t, password |-> p]) :
            t \in ChallengeInputs, p \in Passwords}
    \cup {Request(op, NoBearer, [token |-> t, password |-> "Abc12345#"]) :
            op \in {"set_password", "reset_password"}, t \in BadChallengeInputs}

UserRequests(b) ==
    {Request("set_role", b, [user_id |-> u, role_id |-> r]) :
        u \in UserArgIds, r \in RoleArgIds}
    \cup {Request(op, b, [user_id |-> u]) : op \in {"get_user", "delete_user"},
                                            u \in UserArgIds}
    \cup {Request("get_all_users", b, Empty)}
    \cup {Request("update_user", b, [user_id |-> u, record |-> r]) :
            u \in UserArgIds, r \in UpdateRecords}
    \cup {Request("patch_user", b, [user_id |-> u, record |-> r]) :
            u \in UserArgIds, r \in PatchRecords}
    \cup {Request("change_password", b,
                  [user_id |-> u, old_password |-> o, new_password |-> n]) :
            u \in UserArgIds, o \in Passwords, n \in {"Xyz98765#"}}

RoleRequests(b) ==
    {Request("create_role", b, [role_name |-> n]) : n \in RoleArgNames}
    \cup {Request(op, b, [role_id |-> r]) : op \in {"get_role", "delete_role"},
                                            r \in RoleArgIds}
    \cup {Request("get_all_roles", b, Empty)}
    \cup {Request("update_role", b, [role_id |-> r, role_name |-> n]) :
            r \in RoleArgIds, n \in RoleArgNames}
    \cup {Request("patch_role", b, [role_id |-> r, record |-> rec]) :
            r \in RoleArgIds, rec \in {Empty, [role_name |-> "reporting_user"]}}

NewRequests ==
    OpenRequests
    \cup UNION {UserRequests(b) \cup RoleRequests(b) : b \in BearerInputs}
    \cup {Request("get_user", b, [user_id |-> 1]) : b \in BadBearerInputs}
    \cup {Request("get_all_users", b, Empty) : b \in BadBearerInputs}

\* What a request finds on arrival.
Snapshot ==
    [UserTable |-> UserTable, RoleTable |-> RoleTable, role_seq |-> role_seq,
     now |-> now, issued |-> issued, mailed |-> mailed]

\* A client sends a request; slot s takes it.
Arrive(s) ==
    /\ ~Busy(s)
    /\ served < MaxRequests
    /\ served' = served + 1
    /\ \E r \in NewRequests :
         req' = [req EXCEPT ![s] = [r EXCEPT !.pre = Snapshot]]
    /\ UNCHANGED <<UserTable, RoleTable, role_seq, now, ticks, issued, mailed,
                   granted, call>>

\* Time passes between requests (a request is served within the minute): up
\* to the end of the OTP window or of the access-token lifetime, or just
\* past it.
TickSteps == {OTP_CODE_EXPIRY_MINUTES, OTP_CODE_EXPIRY_MINUTES + 1,
              ACCESS_TOKEN_EXPIRE_MINUTES, ACCESS_TOKEN_EXPIRE_MINUTES + 1}

Tick ==
    /\ \A s \in Slots : ~Busy(s)
    /\ ticks < MaxTicks
    /\ ticks' = ticks + 1
    /\ \E d \in TickSteps : now' = now + d
    /\ UNCHANGED <<UserTable, RoleTable, role_seq, req, served, issued, mailed,
                   granted, call>>

----------------------------------------------------------------------------
(* The service. *)

NoCall == [fn |-> "none", pc |-> "none"]

Init ==
    /\ UserTable = SeedUsers
    /\ RoleTable = SeedRoles
    /\ role_seq = 5
    /\ now = 0
    /\ req = [s \in Slots |-> Idle]
    /\ served = 0
    /\ ticks = 0
    /\ issued = {}
    /\ mailed = SeedMailed
    /\ granted = {}
    /\ call = NoCall

Step(s) ==
    \/ guard(s)
    \/ log_in(s)
    \/ create_user_email(s)
    \/ create_user_username(s)
    \/ create_user_send(s)
    \/ create_user_insert(s)
    \/ set_password(s)
    \/ set_password_update(s)
    \/ request_reset_password(s)
    \/ request_reset_password_send(s)
    \/ request_reset_password_update(s)
    \/ reset_password(s)
    \/ reset_password_update(s)
    \/ set_role(s)
    \/ set_role_update(s)
    \/ get_user(s)
    \/ get_all_users(s)
    \/ delete_user(s)
    \/ update_user(s)
    \/ update_user_username(s)
    \/ update_user_update(s)
    \/ patch_user(s)
    \/ patch_user_username(s)
    \/ patch_user_update(s)
    \/ change_password(s)
    \/ change_password_update(s)
    \/ create_role(s)
    \/ get_role(s)
    \/ get_all_roles(s)
    \/ update_role(s)
    \/ patch_role(s)
    \/ patch_role_update(s)
    \/ delete_role(s)

Next == Tick \/ \E s \in Slots : Arrive(s) \/ Step(s)

Spec == Init /\ [][Next]_vars

----------------------------------------------------------------------------
(* assign_scopes on its own: every scope list up to MaxLen over the five    *)
(* role names and two names that are none of them.                          *)

ScopeNames ==
    {Role.SUPER_ADMIN, Role.ADMIN, Role.MANAGER, Role.USER, Role.REPORTING_USER,
     "super_admin", "GUEST"}

InitScopes ==
    /\ UserTable = SeedUsers
    /\ RoleTable = SeedRoles
    /\ role_seq = 5
    /\ now = 0
    /\ req = [s \in Slots |-> Idle]
    /\ served = 0
    /\ ticks = 0
    /\ issued = {}
    /\ mailed = SeedMailed
    /\ granted = {}
    /\ call \in {[fn |-> "assign_scopes", pc |-> "call", scopes |-> scopes] :
                    scopes \in SeqsUpTo(ScopeNames, MaxLen)}

call_assign_scopes ==
    /\ call.pc = "call"
    /\ call' = [fn |-> "assign_scopes", pc |-> "returned", scopes |-> call.scopes,
                out |-> assign_scopes(call.scopes)]
    /\ UNCHANGED <<UserTable, RoleTable, role_seq, now, req, served, ticks,
                   issued, mailed, granted>>

NextScopes == call_assign_scopes

SpecScopes == InitScopes /\ [][NextScopes]_vars

----------------------------------------------------------------------------
(* The token service on its own: create_access_token for claims drawn from  *)
(* small sets, the clock, and the token (or a forgery of it) presented to   *)
(* jwt.decode and to get_current_user over the seeded tables.               *)

TokenData ==
    [sub : {Username("root"), Username("ann")}, id : UserIds,
     scopes : SeqsUpTo({Role.SUPER_ADMIN, Role.USER}, MaxLen)]

TokenTypes == {"access", "refresh", "other"}

SecurityScopes == {{}, {Role.REPORTING_USER}, {Role.SUPER_ADMIN}}

InitToken ==
    /\ UserTable = SeedUsers
    /\ RoleTable = SeedRoles
    /\ role_seq = 5
    /\ now = 0
    /\ req = [s \in Slots |-> Idle]
    /\ served = 0
    /\ ticks = 0
    /\ issued = {}
    /\ mailed = SeedMailed
    /\ granted = {}
    /\ call \in {[fn |-> "create_access_token", pc |-> "call", data |-> data,
                  token_type |-> token_type] :
                    data \in TokenData, token_type \in TokenTypes}

call_create_access_token ==
    /\ call.pc = "call"
    /\ call' = [fn |-> "create_access_token", pc |-> "issued", data |-> call.data,
                token_type |-> call.token_type, at |-> now,
                out |-> create_access_token(call.data, call.token_type, now)]
    /\ UNCHANGED <<UserTable, RoleTable, role_seq, now, req, served, ticks,
                   issued, mailed, granted>>

\* Time passes while the token is held: a minute, or up to (or just past) the
\* end of either lifetime.
TokenTickSteps ==
    {1, ACCESS_TOKEN_EXPIRE_MINUTES, ACCESS_TOKEN_EXPIRE_MINUTES + 1,
     ACCESS_TOKEN_EXPIRE_MINUTES * 2, ACCESS_TOKEN_EXPIRE_MINUTES * 2 + 1}

TokenTick ==
    /\ call.pc = "issued"
    /\ ticks < MaxTicks
    /\ ticks' = ticks + 1
    /\ \E d \in TokenTickSteps : now' = now + d
    /\ UNCHANGED <<UserTable, RoleTable, role_seq, req, served, issued, mailed,
                   granted, call>>

\* The token, or a forgery of it, is presented: jwt.decode as line 147 calls
\* it, and the whole of get_current_user.
call_get_current_user ==
    /\ call.pc = "issued"
    /\ ~IsError(call.out)
    /\ \E token \in {call.out, Forge(call.out)}, security_scopes \in SecurityScopes :
         call' = [fn |-> "get_current_user", pc |-> "presented", data |-> call.data,
                  token_type |-> call.token_type, at |-> call.at, token |-> token,
                  security_scopes |-> security_scopes, presented_at |-> now,
                  payload |-> jwt_decode(token, SECRET_KEY, now),
                  out |-> get_current_user(security_scopes, token, UserTable,
                                           RoleTable, now)]
    /\ UNCHANGED <<UserTable, RoleTable, role_seq, now, req, served, ticks,
                   issued, mailed, granted>>

NextToken == call_create_access_token \/ TokenTick \/ call_get_current_user

SpecToken == InitToken /\ [][NextToken]_vars

----------------------------------------------------------------------------
(* The guard against a changing store: root has logged in at time 0 and     *)
(* keeps presenting that token, while the requests it authorizes change or  *)
(* rename roles and delete rows.                                            *)

\* What log_in returns to root at time 0.
RootToken ==
    create_access_token([sub |-> Username("root"), scopes |-> <<>>, id |-> 1],
                        "access", 0)

InitGuard ==
    /\ UserTable = SeedUsers
    /\ RoleTable = SeedRoles
    /\ role_seq = 5
    /\ now = 0
    /\ req = [s \in Slots |-> Idle]
    /\ served = 0
    /\ ticks = 0
    /\ issued = {RootToken}
    /\ mailed = SeedMailed
    /\ granted = {}
    /\ call = NoCall

GuardRequests ==
    UNION {
        {Request("set_role", b, [user_id |-> u, role_id |-> r]) :
            u \in UserArgIds, r \in RoleArgIds}
        \cup {Request(op, b, [user_id |-> u]) : op \in {"get_user", "delete_user"},
                                                u \in UserArgIds}
        \cup {Request("get_all_users", b, Empty)}
        \cup {Request("delete_role", b, [role_id |-> r]) : r \in {2, 5}}
        \cup {Request("update_role", b, [role_id |-> r, role_name |-> n]) :
                r \in {1, 2}, n \in {"admin", "manager"}}
        : b \in issued}

ArriveGuard(s) ==
    /\ ~Busy(s)
    /\ served < MaxRequests
    /\ served' = served + 1
    /\ \E r \in GuardRequests :
         req' = [req EXCEPT ![s] = [r EXCEPT !.pre = Snapshot]]
    /\ UNCHANGED <<UserTable, RoleTable, role_seq, now, ticks, issued, mailed,
                   granted, call>>

StepGuard(s) ==
    \/ guard(s)
    \/ set_role(s)
    \/ set_role_update(s)
    \/ get_user(s)
    \/ get_all_users(s)
    \/ delete_user(s)
    \/ update_role(s)
    \/ delete_role(s)

NextGuard == \E s \in Slots : ArriveGuard(s) \/ StepGuard(s)

SpecGuard == InitGuard /\ [][NextGuard]_vars

----------------------------------------------------------------------------
(* The role order of the specification, against which the code is checked. *)

RankOrder == <<"SUPER_ADMIN", "ADMIN", "MANAGER", "USER", "REPORTING_USER">>

Rank(r) == CHOOSE i \in 1..Len(RankOrder) : RankOrder[i] = r

\* r and every role ranked below it; nothing for a name that is no role.
DownwardClosure(r) ==
    IF r \in Range(RankOrder)
    THEN {RankOrder[j] : j \in Rank(r)..Len(RankOrder)}
    ELSE {}

----------------------------------------------------------------------------
\* C1: assign_scopes applied to a one-element list holding role r returns
\* exactly r and every role ranked below r, each once (5, 4, 3, 2, 1 names
\* for SUPER_ADMIN .. REPORTING_USER, and exactly REPORTING_USER for
\* REPORTING_USER); applied to a name outside the five it returns the empty
\* list, not an error.
C1_AssignScopesDownwardClosure ==
    (call.fn = "assign_scopes" /\ call.pc = "returned" /\ Len(call.scopes) = 1) =>
        LET r == call.scopes[1]
        IN  IF r \in Range(RankOrder)
            THEN /\ Range(call.out) = DownwardClosure(r)
                 /\ Len(call.out) = Len(RankOrder) + 1 - Rank(r)
                 /\ r = Role.REPORTING_USER => call.out = <<Role.REPORTING_USER>>
            ELSE call.out = <<>>

\* assign_scopes has returned for the one-element list <<ADMIN>>.
C1_Witness ==
    /\ call.fn = "assign_scopes"
    /\ call.pc = "returned"
    /\ call.scopes = <<Role.ADMIN>>
    /\ Len(call.out) = 4

----------------------------------------------------------------------------
\* The parts of C4 that do not depend on the instant exp itself: exp is the
\* issue time plus 1440 minutes for "access" and plus 2880 for "refresh"; a
\* token presented after exp, or one whose signature does not verify under
\* SECRET_KEY, gets 401 "Could not validate credentials".
C4_Lifetimes ==
    (call.pc = "issued" /\ ~IsError(call.out)) =>
        /\ call.token_type = "access" => call.out.claims.exp = call.at + 1440
        /\ call.token_type = "refresh" => call.out.claims.exp = call.at + 2880

C4_RejectedPastExp ==
    call.pc = "presented" =>
        ((call.presented_at > call.token.claims.exp
          \/ call.token.sig # Sign(call.token.claims, SECRET_KEY))
            => call.out = Raise(401, "Could not validate credentials"))

\* C4 as stated: a session token is accepted by the guard only while the
\* current time is before its exp claim (exp = issue time + 1440 minutes for
\* "access", + 2880 for "refresh"); presented after that, or with a signature
\* that does not verify, it gets 401 "Could not validate credentials".
C4_AcceptedOnlyBeforeExp ==
    /\ C4_Lifetimes
    /\ C4_RejectedPastExp
    /\ (call.pc = "presented" /\ "result" \in DOMAIN call.out)
           => call.presented_at < call.token.claims.exp

\* C4, amended: a session token is accepted by the guard only while the
\* current time is not after its exp claim (at the instant exp itself it is
\* still accepted) and its signature verifies; exp and the rejection of a
\* token presented after exp are as stated.
C4_AcceptedOnlyUntilExp ==
    /\ C4_Lifetimes
    /\ C4_RejectedPastExp
    /\ (call.pc = "presented" /\ "result" \in DOMAIN call.out)
           => /\ call.presented_at <= call.token.claims.exp
              /\ call.token.sig = Sign(call.token.claims, SECRET_KEY)

\* A refresh token of a known user, presented one minute after its exp, has
\* been rejected by the guard.
C4_Witness ==
    /\ call.pc = "presented"
    /\ call.token_type = "refresh"
    /\ call.token = jwt_encode(call.token.claims, SECRET_KEY)
    /\ call.data.id = 1
    /\ call.presented_at = call.at + 2881
    /\ call.out = Raise(401, "Could not validate credentials")

----------------------------------------------------------------------------
----------------------------------------------------------------------------
(* The guard's criterion as the specification states it, on tables U, R at  *)
(* time t: the token decodes, a row with the token's id exists, and every   *)
(* required scope lies in the downward closure of that row's role name.     *)

Decodes(token, t) == jwt_decode(token, SECRET_KEY, t).ok

Covers(U, R, token, t, scopes) ==
    /\ Decodes(token, t)
    /\ "id" \in DOMAIN token.claims
    /\ \E u \in U :
         /\ u.id = token.claims.id
         /\ \E r \in R : /\ r.id = u.role_id
                         /\ scopes \subseteq DownwardClosure(Upper(r.role_name))

\* A known user's token decodes, but the user's role does not cover a scope.
MissesScope(U, R, token, t, scopes) ==
    /\ Decodes(token, t)
    /\ "id" \in DOMAIN token.claims
    /\ \E u \in U : u.id = token.claims.id
    /\ ~Covers(U, R, token, t, scopes)

\* A protected request that is past the guard, one way or the other.
PastGuard(r) == Guarded(r.op) /\ r.pc \notin {"idle", "guard"}

\* The guard has handed a row to the handler.
Authorized(r) == DOMAIN r.current_user # {}

\* The two tables are as the request found them.
StoreAsFound(r) ==
    /\ UserTable = r.pre.UserTable
    /\ RoleTable = r.pre.RoleTable
    /\ role_seq = r.pre.role_seq

\* C2: the guard lets the protected handler run only if the bearer token
\* decodes, a user row with the token's id exists and every required scope
\* is in the downward closure of that row's current role name; a request of
\* a known user that misses a required scope is rejected, and leaves the
\* store as it found it.
C2_GuardAuthorizesOnlyCovered ==
    \A s \in Slots :
        LET r == req[s]
        IN  PastGuard(r) =>
              /\ Authorized(r) =>
                     Covers(r.pre.UserTable, r.pre.RoleTable, r.bearer, r.pre.now,
                            required_scopes[r.op])
              /\ MissesScope(r.pre.UserTable, r.pre.RoleTable, r.bearer, r.pre.now,
                             required_scopes[r.op]) =>
                     /\ ~Authorized(r)
                     /\ r.pc = "done"
                     /\ r.resp.status = 401
                     /\ StoreAsFound(r)

\* A request to delete a role, presented with the token of a user whose role
\* does not cover SUPER_ADMIN, has been rejected.
C2_Witness ==
    \E s \in Slots :
        /\ req[s].op = "delete_role"
        /\ req[s].pc = "done"
        /\ MissesScope(req[s].pre.UserTable, req[s].pre.RoleTable, req[s].bearer,
                       req[s].pre.now, required_scopes[req[s].op])
        /\ req[s].resp = Response(401, "Not enough permissions")

----------------------------------------------------------------------------
\* C3: the guard's decision is recomputed from the store on every request:
\* whatever the token was granted before, a request is authorized exactly
\* when the store it finds covers the required scope, so a token authorized
\* earlier is rejected once set_role or update_role has taken the scope away
\* or delete_user has removed the row.
C3_GuardRecomputedPerRequest ==
    \A s \in Slots :
        LET r == req[s]
        IN  PastGuard(r) =>
              /\ Authorized(r) <=>
                     Covers(r.pre.UserTable, r.pre.RoleTable, r.bearer, r.pre.now,
                            required_scopes[r.op])
              /\ ~Authorized(r) => (r.pc = "done" /\ r.resp.status = 401)

\* Root's token, authorized earlier, has been rejected after update_role
\* renamed root's role: the role row of root is no longer super_admin.
C3_Witness ==
    \E s \in Slots :
        /\ req[s].pc = "done"
        /\ req[s].bearer = RootToken
        /\ req[s].bearer \in granted
        /\ Decodes(req[s].bearer, req[s].pre.now)
        /\ ~Authorized(req[s])
        /\ req[s].resp = Response(401, "Not enough permissions")
        /\ \E u \in UserTable : u.id = 1 /\ u.role_id = 1
        /\ \E r \in RoleTable : r.id = 1 /\ r.role_name = "admin"

----------------------------------------------------------------------------
\* C6: log_in returns an access token only when a row with the lower-cased
\* username exists and the supplied password verifies against the hash in
\* that row; a correct username with a wrong password gets 400 "Password is
\* incorrect"; and when it fails (unknown user, wrong password, no password
\* set) no token is issued and no row changes.
C6_LogInIssuesOnlyOnVerifiedPassword ==
    \A s \in Slots :
        LET r == req[s]
        IN  (r.op = "log_in" /\ r.pc = "done") =>
              LET rows == {u \in r.pre.UserTable :
                              u.username = [r.arg.username EXCEPT !.base = Lower(@)]}
                  unset == \E u \in rows : u.password = NoPassword
                  verifies == \E u \in rows :
                                  /\ u.password # NoPassword
                                  /\ pbkdf2_sha256_verify(r.arg.password, u.password)
              IN  /\ "access_token" \in DOMAIN r.resp =>
                         (r.resp.status = 200 /\ rows # {} /\ verifies)
                  /\ (rows # {} /\ ~unset /\ ~verifies) =>
                         r.resp = Response(400, "Password is incorrect")
                  /\ (rows = {} \/ unset \/ ~verifies) =>
                         /\ "access_token" \notin DOMAIN r.resp
                         /\ r.resp.status \in {400, 404}
                         /\ issued = r.pre.issued
                         /\ StoreAsFound(r)

\* A log_in with root's username in upper case and a wrong password has been
\* answered 400 "Password is incorrect".
C6_Witness ==
    \E s \in Slots :
        /\ req[s].op = "log_in"
        /\ req[s].pc = "done"
        /\ req[s].arg.username = Username("ROOT")
        /\ req[s].arg.password = "Xyz98765#"
        /\ req[s].resp = Response(400, "Password is incorrect")
        /\ issued = {}

----------------------------------------------------------------------------
(* OTP challenge tokens as set_password reads them. *)

\* The token is signed under SECRET_KEY and carries email, code and expiry.
ValidChallenge(token) ==
    /\ token.sig = Sign(token.claims, SECRET_KEY)
    /\ {"email", "token", "expiry"} \subseteq DOMAIN token.claims

\* The token's expiry has not passed at clock reading t.
Unexpired(token, t) == ~token_expired(token.claims.expiry, datetime_now(t))

\* A set_password request that has been answered.
SetPasswordDone(r) == r.op = "set_password" /\ r.pc = "done"

\* C7: set_password with a validly signed, unexpired challenge token whose
\* code differs from the email_otp stored for that email (an unverified row)
\* is rejected with "OTP Code is incorrect" and leaves the row unchanged:
\* email_verified stays false, the password stays unset, email_otp keeps its
\* value.
C7_WrongOtpRejected ==
    \A s \in Slots :
        LET r == req[s]
        IN  (SetPasswordDone(r) /\ ValidChallenge(r.arg.token)
             /\ Unexpired(r.arg.token, r.pre.now)) =>
              \A u \in ByEmail(r.pre.UserTable, r.arg.token.claims.email) :
                  (~u.email_verified /\ u.email_otp # r.arg.token.claims.token) =>
                      /\ r.resp = Response(401, "OTP Code is incorrect")
                      /\ StoreAsFound(r)
                      /\ \E v \in UserTable :
                           /\ v.email = u.email
                           /\ ~v.email_verified
                           /\ v.password = u.password
                           /\ v.email_otp = u.email_otp

\* set_password for ann, who holds code 100000 and no password, with an
\* unexpired token carrying 999999 has been answered "OTP Code is incorrect".
C7_Witness ==
    \E s \in Slots :
        /\ SetPasswordDone(req[s])
        /\ ValidChallenge(req[s].arg.token)
        /\ req[s].arg.token.claims.email = AnnEmail
        /\ req[s].arg.token.claims.token = "999999"
        /\ Unexpired(req[s].arg.token, req[s].pre.now)
        /\ req[s].resp = Response(401, "OTP Code is incorrect")
        /\ \E u \in UserTable :
             u.email = AnnEmail /\ u.email_otp = "100000" /\ u.password = NoPassword

----------------------------------------------------------------------------
\* The first half of C8: set_password with the token whose code equals the
\* stored email_otp, not expired, on an unverified row, sets the password
\* hash, sets email_verified and clears email_otp.
C8_SetsPassword ==
    \A s \in Slots :
        LET r == req[s]
        IN  (SetPasswordDone(r) /\ ValidChallenge(r.arg.token)
             /\ Unexpired(r.arg.token, r.pre.now)
             /\ \E u \in ByEmail(r.pre.UserTable, r.arg.token.claims.email) :
                  ~u.email_verified /\ u.email_otp = r.arg.token.claims.token) =>
              /\ r.resp.status = 200
              /\ UserTable =
                   {IF u.email = r.arg.token.claims.email
                    THEN [u EXCEPT !.password = pbkdf2_sha256_hash(r.arg.password),
                                   !.email_verified = TRUE,
                                   !.email_otp = NULL]
                    ELSE u : u \in r.pre.UserTable}

\* C8 as stated: ... and any later set_password for the same email (a valid
\* challenge token for an email whose row is verified) is rejected with 409
\* "Email already verified" and changes nothing.
C8_LaterAlwaysConflict ==
    /\ C8_SetsPassword
    /\ \A s \in Slots :
         LET r == req[s]
         IN  (SetPasswordDone(r) /\ ValidChallenge(r.arg.token)
              /\ \E u \in ByEmail(r.pre.UserTable, r.arg.token.claims.email) :
                   u.email_verified) =>
               /\ r.resp = Response(409, "Email already verified")
               /\ StoreAsFound(r)

\* C8, amended: ... and any later set_password for the same email changes
\* nothing; it is rejected with 409 "Email already verified" while the token
\* presented has not expired, and with 401 "Token expired" once it has.
C8_LaterConflictUntilExpiry ==
    /\ C8_SetsPassword
    /\ \A s \in Slots :
         LET r == req[s]
         IN  (SetPasswordDone(r) /\ ValidChallenge(r.arg.token)
              /\ \E u \in ByEmail(r.pre.UserTable, r.arg.token.claims.email) :
                   u.email_verified) =>
               /\ r.resp = IF ~Unexpired(r.arg.token, r.pre.now)
                           THEN Response(401, "Token expired")
                           ELSE Response(409, "Email already verified")
               /\ StoreAsFound(r)

\* ann has set her password, and a second set_password with her unexpired
\* token has been answered 409 "Email already verified".
C8_Witness ==
    \E s \in Slots :
        /\ SetPasswordDone(req[s])
        /\ ValidChallenge(req[s].arg.token)
        /\ req[s].arg.token.claims.email = AnnEmail
        /\ req[s].resp = Response(409, "Email already verified")
        /\ \E u \in UserTable :
             /\ u.email = AnnEmail
             /\ u.email_verified
             /\ u.email_otp = NULL
             /\ u.password # NoPassword

----------------------------------------------------------------------------
\* A create_user request that has been answered.
CreateUserDone(r) == r.op = "create_user" /\ r.pc = "done"

\* The email dispatch of the request succeeded.
Dispatched(r) == "email_otp_response" \in DOMAIN r.loc

\* C9: create_user for an email that already has a row is rejected with 409
\* "Email already exists" while the row is unverified and 409 "Email already
\* verified" once it is verified; no email is dispatched, no row is inserted
\* and the existing row, its email_otp included, is unchanged.
C9_ExistingEmailRejected ==
    \A s \in Slots :
        LET r == req[s]
        IN  CreateUserDone(r) =>
              \A u \in ByEmail(r.pre.UserTable, r.arg.email) :
                  /\ r.resp = Response(409, IF u.email_verified
                                            THEN "Email already verified"
                                            ELSE "Email already exists")
                  /\ ~Dispatched(r)
                  /\ mailed = r.pre.mailed
                  /\ StoreAsFound(r)
                  /\ u \in UserTable

\* create_user for ann's email, after ann has set her password, has been
\* answered 409 "Email already verified".
C9_Witness ==
    \E s \in Slots :
        /\ CreateUserDone(req[s])
        /\ req[s].arg.email = AnnEmail
        /\ req[s].resp = Response(409, "Email already verified")
        /\ mailed = req[s].pre.mailed

----------------------------------------------------------------------------
\* C10 as stated: a create_user request for an email not yet in the store,
\* whose email dispatch succeeds, ends with 201 and exactly one new row with
\* that email, username equal to the email's local part (when that username
\* is free), email_otp equal to the code in the dispatched challenge token,
\* email_verified false, no password and no role.
C10_CreateUserInsertsRow ==
    \A s \in Slots :
        LET r == req[s]
        IN  (CreateUserDone(r) /\ ByEmail(r.pre.UserTable, r.arg.email) = {}
             /\ Dispatched(r)) =>
              /\ r.resp.status = 201
              /\ \E u \in UserTable \ r.pre.UserTable :
                   /\ UserTable = r.pre.UserTable \cup {u}
                   /\ u.email = r.arg.email
                   /\ ByUsername(r.pre.UserTable, Username(r.arg.email[1])) = {}
                          => u.username = Username(r.arg.email[1])
                   /\ u.email_otp = r.loc.encoded_jwt.claims.token
                   /\ r.loc.encoded_jwt \in mailed
                   /\ ~u.email_verified
                   /\ u.password = NoPassword
                   /\ u.role_id = NullId

----------------------------------------------------------------------------
\* A request of one of the two endpoints that dispatch a challenge email.
Dispatches(r) == r.op \in {"create_user", "request_reset_password"}

\* The request reached the dispatch and the dispatch failed.
DispatchFailed(r) ==
    r.pc = "done" /\ "encoded_jwt" \in DOMAIN r.loc /\ ~Dispatched(r)

\* C11: send-then-persist.  In create_user and request_reset_password the
\* store write (the insert, or the update of password_otp and
\* password_verified) is reached only after the email dispatch has returned
\* success; if the dispatch fails the request ends with a 500 and the store
\* is exactly as it was before the request.
C11_SendThenPersist ==
    \A s \in Slots :
        LET r == req[s]
        IN  Dispatches(r) =>
              /\ r.pc \in {"create_user_insert", "request_reset_password_update"}
                     => (Dispatched(r) /\ r.loc.encoded_jwt \in mailed)
              /\ ~StoreAsFound(r) => (Dispatched(r) /\ r.loc.encoded_jwt \in mailed)
              /\ DispatchFailed(r) =>
                     /\ r.resp.status = 500
                     /\ StoreAsFound(r)
                     /\ mailed = r.pre.mailed

\* After one request_reset_password has stored a code for ann, a second one
\* whose dispatch failed has been answered 500 and has left that code alone.
C11_Witness ==
    \E s \in Slots :
        /\ req[s].op = "request_reset_password"
        /\ req[s].arg.email = AnnEmail
        /\ DispatchFailed(req[s])
        /\ req[s].resp.status = 500
        /\ StoreAsFound(req[s])
        /\ \E u \in UserTable :
             /\ u.email = AnnEmail
             /\ u.password_otp \in OtpCodes
             /\ u.password_otp # req[s].loc.otp_code

----------------------------------------------------------------------------
(* The expiry of a challenge token on its own: the comparison of lines 186  *)
(* and 776 applied to a token issued at one datetime and presented at       *)
(* another, at every second-resolution pair of a window that spans the turn *)
(* of the year; and set_password / reset_password presented with the        *)
(* challenge tokens in circulation while the clock moves to the end of the  *)
(* five-minute window and past it.                                          *)

MaxMinute == 21     \* the window of datetimes compared, in minutes

ExpiryDatetimes ==
    [minute : 0..MaxMinute, second : {0, 1, 59}, microsecond : {0, 999999}]

InitExpiry ==
    /\ UserTable = SeedUsers
    /\ RoleTable = SeedRoles
    /\ role_seq = 5
    /\ now = 0
    /\ req = [s \in Slots |-> Idle]
    /\ served = 0
    /\ ticks = 0
    /\ issued = {}
    /\ mailed = SeedMailed
    /\ granted = {}
    /\ call \in {NoCall} \cup
                {[fn |-> "token_expired", pc |-> "call", issue |-> a, present |-> b] :
                    a \in ExpiryDatetimes, b \in ExpiryDatetimes}

\* A token is issued at call.issue and its expiry is compared with the clock
\* at call.present; the two datetimes themselves are rendered and compared.
call_token_expired ==
    /\ call.pc = "call"
    /\ call' = [fn |-> "token_expired", pc |-> "returned", issue |-> call.issue,
                present |-> call.present,
                expiry |-> otp_expiry(call.issue),
                out |-> token_expired(otp_expiry(call.issue), call.present),
                earlier |-> StrLess(strftime(call.issue), strftime(call.present))]
    /\ UNCHANGED <<UserTable, RoleTable, role_seq, now, req, served, ticks,
                   issued, mailed, granted>>

ExpiryRequests ==
    {Request("request_reset_password", NoBearer, [email |-> AnnEmail])}
    \cup {Request(op, NoBearer, [token |-> t, password |-> "Abc12345#"]) :
            op \in {"set_password", "reset_password"}, t \in mailed}

ArriveExpiry(s) ==
    /\ call = NoCall
    /\ ~Busy(s)
    /\ served < MaxRequests
    /\ served' = served + 1
    /\ \E r \in ExpiryRequests :
         req' = [req EXCEPT ![s] = [r EXCEPT !.pre = Snapshot]]
    /\ UNCHANGED <<UserTable, RoleTable, role_seq, now, ticks, issued, mailed,
                   granted, call>>

\* Time passes between requests: to just before the end of the five-minute
\* window, to its end, or just past it.
ExpiryTickSteps == {OTP_CODE_EXPIRY_MINUTES - 1, OTP_CODE_EXPIRY_MINUTES,
                    OTP_CODE_EXPIRY_MINUTES + 1}

TickExpiry ==
    /\ call = NoCall
    /\ \A s \in Slots : ~Busy(s)
    /\ ticks < MaxTicks
    /\ ticks' = ticks + 1
    /\ \E d \in ExpiryTickSteps : now' = now + d
    /\ UNCHANGED <<UserTable, RoleTable, role_seq, req, served, issued, mailed,
                   granted, call>>

StepExpiry(s) ==
    \/ set_password(s)
    \/ set_password_update(s)
    \/ request_reset_password(s)
    \/ request_reset_password_send(s)
    \/ request_reset_password_update(s)
    \/ reset_password(s)
    \/ reset_password_update(s)

NextExpiry ==
    call_token_expired \/ TickExpiry \/ \E s \in Slots : ArriveExpiry(s) \/ StepExpiry(s)

SpecExpiry == InitExpiry /\ [][NextExpiry]_vars

----------------------------------------------------------------------------
\* A datetime as an instant at one-second resolution: seconds since the
\* clock read 0.
Seconds(dt) == dt.minute * 60 + dt.second

\* The clock readings at which a challenge token can have been issued.
IssueTimes == 0..(MaxTicks * (OTP_CODE_EXPIRY_MINUTES + 1))

\* C12: a challenge token is rejected as expired (401 "Token expired", no row
\* changed) by set_password and reset_password exactly when the current local
\* time, at one-second resolution, is strictly later than the token's issue
\* time plus 5 minutes; and the lexicographic comparison of two rendered
\* datetimes gives the verdict of comparing the two instants.
C12_ExpiredExactlyWhenLater ==
    /\ call.pc = "returned" =>
          /\ call.out <=> Seconds(call.present) > Seconds(call.issue) + 5 * 60
          /\ call.earlier <=> Seconds(call.issue) < Seconds(call.present)
    /\ \A s \in Slots :
          LET r == req[s]
          IN  (r.op \in {"set_password", "reset_password"} /\ r.pc = "done"
               /\ ValidChallenge(r.arg.token)) =>
                \A t0 \in IssueTimes, e \in Emails, c \in OtpCodes :
                    r.arg.token = challenge_token(e, c, t0) =>
                        /\ r.resp = Response(401, "Token expired")
                               <=> r.pre.now > t0 + 5
                        /\ r.pre.now > t0 + 5 => StoreAsFound(r)

\* reset_password presented, six minutes after its issue, with the
\* confirmation token mailed to ann has been answered 401 "Token expired".
C12_Witness ==
    \E s \in Slots :
        /\ req[s].op = "reset_password"
        /\ req[s].pc = "done"
        /\ req[s].arg.token \in SeedMailed
        /\ req[s].pre.now = 6
        /\ req[s].resp = Response(401, "Token expired")
        /\ StoreAsFound(req[s])

----------------------------------------------------------------------------
\* A reset_password request that has been answered.
ResetPasswordDone(r) == r.op = "reset_password" /\ r.pc = "done"

\* The request presents the challenge token of an earlier
\* request_reset_password, and a later request_reset_password for the same
\* email has stored a different code: the row found holds the code of
\* another token that was mailed for that email.
StaleResetToken(r) ==
    /\ ValidChallenge(r.arg.token)
    /\ r.arg.token \in r.pre.mailed \ SeedMailed
    /\ \E u \in ByEmail(r.pre.UserTable, r.arg.token.claims.email) :
         /\ ~u.password_verified
         /\ u.password_otp # r.arg.token.claims.token
         /\ \E t2 \in r.pre.mailed :
              /\ t2.claims.email = u.email
              /\ t2.claims.token = u.password_otp

\* reset_password succeeds only with the token that carries the stored code,
\* and then stores the new password.
ResetOnlyWithStoredCode(r) ==
    (ResetPasswordDone(r) /\ (r.resp.status = 200 \/ ~StoreAsFound(r))) =>
        /\ ValidChallenge(r.arg.token)
        /\ \E u \in ByEmail(r.pre.UserTable, r.arg.token.claims.email) :
             /\ u.password_otp = r.arg.token.claims.token
             /\ UserTable = (r.pre.UserTable \ {u}) \cup
                    {[u EXCEPT !.password = pbkdf2_sha256_hash(r.arg.password),
                               !.password_otp = NULL,
                               !.password_verified = TRUE]}

\* C13 as stated: after a second request_reset_password for the same email
\* has persisted a new password_otp, reset_password called with the token of
\* the first request is rejected with "OTP Code is incorrect" and does not
\* change the password; only the token carrying the currently stored code
\* can succeed.
C13_StaleTokenOtpIncorrect ==
    \A s \in Slots :
        LET r == req[s]
        IN  /\ (ResetPasswordDone(r) /\ StaleResetToken(r)) =>
                  /\ r.resp = Response(401, "OTP Code is incorrect")
                  /\ StoreAsFound(r)
            /\ ResetOnlyWithStoredCode(r)

\* C13, amended: ... the token of the first request is rejected and does not
\* change the password: with "OTP Code is incorrect" while that token has
\* not expired, and with "Token expired" once it has; only the token
\* carrying the currently stored code can succeed.
C13_StaleTokenRejected ==
    \A s \in Slots :
        LET r == req[s]
        IN  /\ (ResetPasswordDone(r) /\ StaleResetToken(r)) =>
                  /\ r.resp = IF Unexpired(r.arg.token, r.pre.now)
                              THEN Response(401, "OTP Code is incorrect")
                              ELSE Response(401, "Token expired")
                  /\ StoreAsFound(r)
            /\ ResetOnlyWithStoredCode(r)

\* Two request_reset_password calls for ann have stored first one code and
\* then the other; reset_password with the first, unexpired token has been
\* answered "OTP Code is incorrect" and ann's row still holds the second code.
C13_Witness ==
    \E s \in Slots :
        /\ ResetPasswordDone(req[s])
        /\ StaleResetToken(req[s])
        /\ req[s].arg.token.claims.email = AnnEmail
        /\ Unexpired(req[s].arg.token, req[s].pre.now)
        /\ req[s].resp = Response(401, "OTP Code is incorrect")
        /\ \E u \in UserTable :
             /\ u.email = AnnEmail
             /\ u.password_otp \in OtpCodes \ {req[s].arg.token.claims.token}
             /\ u.password = NoPassword

----------------------------------------------------------------------------
\* C14: set_role with a role_id that has no role row answers 404 "Role does
\* not exist" and changes no user row.
C14_SetRoleMissingRole ==
    \A s \in Slots :
        LET r == req[s]
        IN  (r.op = "set_role" /\ r.pc = "done" /\ Authorized(r)
             /\ ById(r.pre.RoleTable, r.arg.role_id) = {}) =>
              /\ r.resp = Response(404, "Role does not exist")
              /\ UserTable = r.pre.UserTable
              /\ StoreAsFound(r)

\* set_role of ann to role 6, which has no row, has been answered 404 "Role
\* does not exist" and ann is still a reporting user.
C14_Witness ==
    \E s \in Slots :
        /\ req[s].op = "set_role"
        /\ req[s].pc = "done"
        /\ Authorized(req[s])
        /\ req[s].arg = [user_id |-> 2, role_id |-> 6]
        /\ ById(RoleTable, 6) = {}
        /\ req[s].resp = Response(404, "Role does not exist")
        /\ \E u \in UserTable : u.id = 2 /\ u.role_id = 5

----------------------------------------------------------------------------
(* Concurrent requests.  The handlers are coroutines on one event loop: two *)
(* requests in flight interleave at every await, that is, between any two   *)
(* store statements.  Root has logged in at time 0 and presents that token. *)

RaceSlots == {1, 2}

InitRace ==
    /\ UserTable = SeedUsers
    /\ RoleTable = SeedRoles
    /\ role_seq = 5
    /\ now = 0
    /\ req = [s \in RaceSlots |-> Idle]
    /\ served = 0
    /\ ticks = 0
    /\ issued = {RootToken}
    /\ mailed = SeedMailed
    /\ granted = {}
    /\ call = NoCall

RaceRequests ==
    {Request("create_user", NoBearer, [email |-> e]) :
        e \in {Email("bob", "x.com"), Email("ann", "y.org")}}
    \cup UNION {
        {Request("update_user", b,
                 [user_id |-> u,
                  record |-> [first_name |-> "Zed", username |-> n, city |-> NULL]]) :
            u \in UserArgIds, n \in {Username("zed"), Username("bob")}}
        \cup {Request("patch_user", b,
                      [user_id |-> u, record |-> [username |-> Username("zed")]]) :
                u \in UserArgIds}
        \cup {Request("set_role", b, a) :
                a \in {[user_id |-> 2, role_id |-> 2], [user_id |-> 1, role_id |-> 5]}}
        \cup {Request("delete_role", b, [role_id |-> r]) : r \in {2, 5}}
        \cup {Request("create_role", b, [role_name |-> "admin"])}
        : b \in issued}

ArriveRace(s) ==
    /\ ~Busy(s)
    /\ served < MaxRequests
    /\ served' = served + 1
    /\ \E r \in RaceRequests :
         req' = [req EXCEPT ![s] = [r EXCEPT !.pre = Snapshot]]
    /\ UNCHANGED <<UserTable, RoleTable, role_seq, now, ticks, issued, mailed,
                   granted, call>>

StepRace(s) ==
    \/ guard(s)
    \/ create_user_email(s)
    \/ create_user_username(s)
    \/ create_user_send(s)
    \/ create_user_insert(s)
    \/ update_user(s)
    \/ update_user_username(s)
    \/ update_user_update(s)
    \/ patch_user(s)
    \/ patch_user_username(s)
    \/ patch_user_update(s)
    \/ set_role(s)
    \/ set_role_update(s)
    \/ delete_role(s)
    \/ create_role(s)

NextRace == \E s \in RaceSlots : ArriveRace(s) \/ StepRace(s)

SpecRace == InitRace /\ [][NextRace]_vars

----------------------------------------------------------------------------
\* No two user rows share an email or a username.
UsersDistinct ==
    \A u, v \in UserTable : u # v => (u.email # v.email /\ u.username # v.username)

\* The request of slot s executes its write statement in this step.
WriteStep(s) ==
    /\ req[s].pc \in {"create_user_insert", "update_user_update", "patch_user_update"}
    /\ req'[s].pc = "done"

\* The row the write of slot s would store collides, on email or username,
\* with a row that some other request has stored in the meantime.
LosesRace(s) ==
    LET r == req[s]
    IN  CASE r.pc = "create_user_insert" ->
                 \E u \in UserTable : u.email = r.arg.email \/ u.username = r.loc.username
          [] r.pc = "update_user_update" ->
                 /\ ById(UserTable, r.arg.user_id) # {}
                 /\ \E u \in UserTable : /\ u.id # r.arg.user_id
                                          /\ u.username = r.arg.record.username
          [] r.pc = "patch_user_update" ->
                 /\ ById(UserTable, r.arg.user_id) # {}
                 /\ LET values == patch_user_values(r.loc.result, r.arg.record)
                    IN  \E u \in UserTable : /\ u.id # r.arg.user_id
                                             /\ \/ u.username = values.username
                                                \/ u.email = values.email
          [] OTHER -> FALSE

\* C15 as stated: under every interleaving of concurrent create_user,
\* update_user and patch_user requests, no two user rows ever share an email
\* or a username; a request that passed the pre-check but loses the race at
\* the write ends with a 409 conflict response and its write has no effect.
C15_RaceLoserGetsConflict ==
    /\ []UsersDistinct
    /\ [][\A s \in RaceSlots :
            (WriteStep(s) /\ LosesRace(s)) =>
                /\ req'[s].resp.status = 409
                /\ UserTable' = UserTable]_vars

----------------------------------------------------------------------------
\* The guard has turned the request away: the handler never ran.
GuardRejected(r) == PastGuard(r) /\ ~Authorized(r) /\ r.pc = "done"

\* The statuses the guard answers with when the token is invalid or expired,
\* or when no row has the token's id.
LogInAgainStatuses == {credentials_exception.status}

\* C16 as stated: when the guard rejects a request because a required scope
\* is missing from the user's resolved scopes, the status of its error
\* differs from the status of the error it returns for an invalid or expired
\* token or an unknown user.
C16_ScopeMissDistinctStatus ==
    \A s \in Slots :
        LET r == req[s]
        IN  (/\ GuardRejected(r)
             /\ MissesScope(r.pre.UserTable, r.pre.RoleTable, r.bearer, r.pre.now,
                            required_scopes[r.op]))
                => r.resp.status \notin LogInAgainStatuses

----------------------------------------------------------------------------
\* A validly signed, unexpired token without the username claim or without
\* the user id claim.
LacksIdentity(token, t) ==
    /\ Decodes(token, t)
    /\ {"sub", "id"} \ DOMAIN token.claims # {}

\* C17 as stated: a validly signed, unexpired token that lacks sub or id is
\* rejected by the guard with the 401 authentication failure, not with a 500
\* internal error, and the protected handler never runs.
C17_MissingClaimRejectedAs401 ==
    \A s \in Slots :
        LET r == req[s]
        IN  (PastGuard(r) /\ LacksIdentity(r.bearer, r.pre.now)) =>
                /\ GuardRejected(r)
                /\ r.resp.status = 401
                /\ StoreAsFound(r)

----------------------------------------------------------------------------
\* C19 as stated: a malformed or tampered challenge token presented to
\* set_password or to reset_password is rejected with 401 "Invalid token" in
\* both endpoints, never with an internal error, and no user row changes.
C19_BadChallengeTokenInvalid ==
    \A s \in Slots :
        LET r == req[s]
        IN  (/\ SetPasswordDone(r) \/ ResetPasswordDone(r)
             /\ ~Decodes(r.arg.token, r.pre.now))
                => /\ r.resp = Response(401, "Invalid token")
                   /\ UserTable = r.pre.UserTable

----------------------------------------------------------------------------
\* The request of slot s executes a statement that changes the store, and
\* answers, in this step.
StoreStep(s) ==
    /\ req[s].pc \in {"create_user_insert", "update_user_update", "patch_user_update",
                      "set_role_update", "delete_role"}
    /\ req'[s].pc = "done"

\* The statement slot s is about to execute violates a constraint of the
\* store: delete_role of a role some user row still references, set_role's
\* update to a role that is no longer there, an update that collides on a
\* unique column, an insert without the NOT NULL columns.
ViolatesConstraint(s) ==
    LET r == req[s]
    IN  CASE r.pc = "delete_role" ->
                 /\ ById(RoleTable, r.arg.role_id) # {}
                 /\ \E u \in UserTable : u.role_id = r.arg.role_id
          [] r.pc = "set_role_update" ->
                 /\ ById(UserTable, r.arg.user_id) # {}
                 /\ ById(RoleTable, r.arg.role_id) = {}
          [] r.pc \in {"update_user_update", "patch_user_update"} -> LosesRace(s)
          [] r.pc = "create_user_insert" -> TRUE
          [] OTHER -> FALSE

\* C20 as stated: every store constraint violation is reported to the caller
\* as a 409 conflict with the store unchanged; in particular delete_role on a
\* role still referenced by a user, and set_role whose role is deleted
\* between its existence check and its update, end with a conflict response
\* rather than an internal error.
C20_ConstraintViolationIsConflict ==
    [][\A s \in RaceSlots :
          (StoreStep(s) /\ ViolatesConstraint(s)) =>
              /\ req'[s].resp.status = 409
              /\ UserTable' = UserTable
              /\ RoleTable' = RoleTable]_vars

----------------------------------------------------------------------------
\* The role table differs after the step, or a user row that is there before
\* and after it has a different role_id.
RolesChange ==
    \/ RoleTable' # RoleTable
    \/ \E u \in UserTable, v \in UserTable' : u.id = v.id /\ u.role_id # v.role_id

\* The request of slot s takes this step, and the guard handed it a row whose
\* role was super_admin.
SuperAdminStep(s) ==
    /\ req'[s] # req[s]
    /\ "role_name" \in DOMAIN req[s].current_user
    /\ Upper(req[s].current_user.role_name) = Role.SUPER_ADMIN

\* C21 as stated: under every interleaving of requests, the role table
\* changes, and a user's role_id takes a different value, only as the effect
\* of a request whose caller the guard authorized as super_admin; no request
\* by a caller whose role is below super_admin changes either.
C21_RolesChangeOnlyBySuperAdmin ==
    [][RolesChange => \E s \in RaceSlots : SuperAdminStep(s)]_vars

----------------------------------------------------------------------------
\* Slot s executes the update of patch_user in this step.
PatchUserWrites(s) ==
    /\ req[s].pc = "patch_user_update"
    /\ req'[s].pc = "done"

\* The row with the given id in table U (there is one).
RowOf(U, id) == CHOOSE u \in U : u.id = id

\* C22 as stated: patch_user changes only the columns supplied in the
\* request: every column of the target row that the request does not provide
\* has, after patch_user has written, the value it had before.
C22_PatchUserFrame ==
    [][\A s \in DOMAIN req :
          (PatchUserWrites(s) /\ ById(UserTable, req[s].arg.user_id) # {}) =>
              /\ ById(UserTable', req[s].arg.user_id) # {}
              /\ \A f \in DOMAIN RowOf(UserTable, req[s].arg.user_id)
                             \ DOMAIN req[s].arg.record :
                     RowOf(UserTable', req[s].arg.user_id)[f]
                         = RowOf(UserTable, req[s].arg.user_id)[f]]_vars

----------------------------------------------------------------------------
\* C23 as stated: in every reachable state a user row that has a password
\* hash also has email_verified = true: no sequence of create_user,
\* set_password, request_reset_password, reset_password and change_password
\* gives a password to a user whose email is still unverified.
C23_PasswordOnlyWithVerifiedEmail ==
    \A u \in UserTable : u.password # NoPassword => u.email_verified

----------------------------------------------------------------------------
(* Concurrent onboarding: two requests in flight at once over create_user,  *)
(* set_password, request_reset_password and reset_password, every awaited   *)
(* statement of one interleaved with those of the other.                    *)

OnboardRequests ==
    {Request("create_user", NoBearer, [email |-> e]) :
        e \in {Email("bob", "x.com"), AnnEmail}}
    \cup {Request("request_reset_password", NoBearer, [email |-> AnnEmail])}
    \cup {Request(op, NoBearer, [token |-> t, password |-> p]) :
            op \in {"set_password", "reset_password"}, t \in mailed, p \in Passwords}

ArriveOnboard(s) ==
    /\ ~Busy(s)
    /\ served < MaxRequests
    /\ served' = served + 1
    /\ \E r \in OnboardRequests :
         req' = [req EXCEPT ![s] = [r EXCEPT !.pre = Snapshot]]
    /\ UNCHANGED <<UserTable, RoleTable, role_seq, now, ticks, issued, mailed,
                   granted, call>>

StepOnboard(s) ==
    \/ create_user_email(s)
    \/ create_user_username(s)
    \/ create_user_send(s)
    \/ create_user_insert(s)
    \/ set_password(s)
    \/ set_password_update(s)
    \/ request_reset_password(s)
    \/ request_reset_password_send(s)
    \/ request_reset_password_update(s)
    \/ reset_password(s)
    \/ reset_password_update(s)

NextOnboard == \E s \in RaceSlots : ArriveOnboard(s) \/ StepOnboard(s)

SpecOnboard == InitRace /\ [][NextOnboard]_vars

----------------------------------------------------------------------------
\* The request has confirmed a challenge token: set_password or
\* reset_password answered 200 and wrote a password.
Confirmed(r) ==
    /\ r.op \in {"set_password", "reset_password"}
    /\ r.pc = "done"
    /\ r.resp.status = 200

\* C24 as stated: a challenge token is single-use: under every interleaving,
\* including two concurrent confirm requests carrying the same token, at most
\* one set_password or reset_password request presenting a given challenge
\* token ends in success and writes a password.
C24_ChallengeTokenSingleUse ==
    \A s, t \in RaceSlots :
        (s # t /\ Confirmed(req[s]) /\ Confirmed(req[t])) =>
            req[s].arg.token # req[t].arg.token

----------------------------------------------------------------------------
\* Two session tokens of the same user: validly signed, unexpired, with the
\* same sub and id.
SameIdentity(t1, t2) ==
    /\ Decodes(t1, now) /\ Decodes(t2, now)
    /\ {"sub", "id", "scopes"} \subseteq DOMAIN t1.claims \cap DOMAIN t2.claims
    /\ t1.claims.sub = t2.claims.sub
    /\ t1.claims.id = t2.claims.id

\* What the guard of endpoint op answers to the token in the current store.
GuardOutcome(op, token) ==
    get_current_user(required_scopes[op], token, UserTable, RoleTable, now)

\* C25: the scopes claim carried inside a session token has no influence on
\* authorization: two validly signed tokens with the same sub and id that
\* differ in their scopes claim receive the same guard outcome in every store
\* state, so scopes requested at log_in never grant access.
C25_ScopesClaimIgnored ==
    \A t1, t2 \in issued :
        SameIdentity(t1, t2) =>
            \A op \in DOMAIN required_scopes : GuardOutcome(op, t1) = GuardOutcome(op, t2)

\* Root holds a token that log_in issued with the SUPER_ADMIN scope requested
\* and one issued without; root's role is no longer super_admin, and the guard
\* of a super_admin endpoint turns the first away.
C25_Witness ==
    \E t1, t2 \in issued :
        /\ SameIdentity(t1, t2)
        /\ t1.claims.scopes = <<Role.SUPER_ADMIN>>
        /\ t2.claims.scopes = <<>>
        /\ GuardOutcome("get_all_users", t1) = Raise(401, "Not enough permissions")

----------------------------------------------------------------------------
\* The code a challenge token carries, and the email it names.
TokenCode(token) == token.claims.token
TokenEmail(token) == token.claims.email

\* Slot s is about to execute one of the three updates that write a password,
\* on row u, and the condition of that update holds of u as stored now: the
\* code of a set_password token equals email_otp and email_verified is false;
\* the code of a reset_password token equals password_otp and
\* password_verified is false; the old_password of change_password verifies
\* against the hash of u.
GuardedPasswordStep(s, u) ==
    LET r == req[s]
    IN  \/ /\ r.pc = "set_password_update"
           /\ u.email = TokenEmail(r.arg.token)
           /\ ~u.email_verified
           /\ u.email_otp = TokenCode(r.arg.token)
        \/ /\ r.pc = "reset_password_update"
           /\ u.email = TokenEmail(r.arg.token)
           /\ ~u.password_verified
           /\ u.password_otp = TokenCode(r.arg.token)
        \/ /\ r.pc = "change_password_update"
           /\ u.id = r.arg.user_id
           /\ u.password # NoPassword
           /\ pbkdf2_sha256_verify(r.arg.old_password, u.password)

\* C26 as stated: a user's password hash changes only in three guarded steps:
\* set_password whose token code equals the stored email_otp while
\* email_verified is false, reset_password whose token code equals the stored
\* password_otp while password_verified is false, and change_password whose
\* old_password verifies against the current hash of that row; every other
\* step leaves every password hash unchanged.
C26_PasswordChangesOnlyGuarded ==
    [][\A u \in UserTable, v \in UserTable' :
          (u.id = v.id /\ u.password # v.password) =>
              \E s \in DOMAIN req : req'[s] # req[s] /\ GuardedPasswordStep(s, u)]_vars

----------------------------------------------------------------------------
\* C27 as stated: whenever a create_user request has dispatched a
\* confirmation email and completed, under every interleaving with other
\* create_user requests, a user row for that email exists whose email_otp
\* equals the code embedded in the dispatched token, so no emailed
\* confirmation link is unconfirmable from the start.
C27_DispatchedLinkConfirmable ==
    \A s \in RaceSlots :
        LET r == req[s]
        IN  (r.op = "create_user" /\ r.pc = "done" /\ Dispatched(r)) =>
                \E u \in UserTable :
                    /\ u.email = r.arg.email
                    /\ u.email_otp = TokenCode(r.loc.encoded_jwt)

----------------------------------------------------------------------------
\* C28: in every reachable state, under every interleaving of set_role,
\* delete_role, create_role and user operations, each user row's non-null
\* role_id is the id of an existing role row; a set_role that races with
\* delete_role of the same role never leaves a user pointing at a deleted
\* role.
C28_RoleIdReferencesRole ==
    \A u \in UserTable : u.role_id # NullId => ById(RoleTable, u.role_id) # {}

\* A set_role has passed its existence check, delete_role has removed that
\* role before the update, and the update has been refused: the role is gone
\* and the user row still has the role it had.
C28_Witness ==
    \E s, t \in RaceSlots :
        /\ req[s].op = "set_role" /\ req[s].pc = "done"
        /\ req[s].resp = SomethingWentWrong
        /\ req[t].op = "delete_role" /\ req[t].pc = "done"
        /\ req[t].resp.status = 204
        /\ req[t].arg.role_id = req[s].arg.role_id
        /\ ById(RoleTable, req[s].arg.role_id) = {}
        /\ \E u \in UserTable : /\ u.id = req[s].arg.user_id
                                /\ u.role_id # req[s].arg.role_id

----------------------------------------------------------------------------
\* C29: in every reachable state, for every user row, email_verified = true
\* implies email_otp is null and password_verified = true implies
\* password_otp is null, under every interleaving of create_user,
\* set_password, request_reset_password and reset_password.
C29_VerifiedMeansNoCode ==
    \A u \in UserTable :
        /\ u.email_verified => u.email_otp = NULL
        /\ u.password_verified => u.password_otp = NULL

\* While one request confirmed ann's email with set_password, another went
\* through reset_password for the same row: both ended in success, and the
\* row is verified on both counts with both codes cleared.
C29_Witness ==
    \E s, t \in RaceSlots :
        /\ req[s].op = "set_password" /\ Confirmed(req[s])
        /\ req[t].op = "reset_password" /\ Confirmed(req[t])
        /\ \E u \in UserTable :
             /\ u.email = AnnEmail
             /\ u.email_verified /\ u.email_otp = NULL
             /\ u.password_verified /\ u.password_otp = NULL

----------------------------------------------------------------------------
\* C30 as stated: set_role answers 200 "Role set successfully" only if, when
\* it completes, a user row with the requested user_id exists and its role_id
\* equals the requested role_id; for a user_id that has no row it does not
\* report success.
C30_SetRoleSuccessMeansRoleSet ==
    \A s \in Slots :
        LET r == req[s]
        IN  (r.op = "set_role" /\ r.pc = "done" /\ r.resp.status = 200) =>
                \E u \in UserTable : u.id = r.arg.user_id /\ u.role_id = r.arg.role_id

====
